---- MODULE Spec2Model ----
(***************************************************************************)
(* VibeCI backend.                                                         *)
(*                                                                         *)
(* Spec: the orchestration loop of services/orchestrator.ts (startTask /   *)
(* runTask) with the task row of database/index.ts.  One action is one     *)
(* run-to-completion segment of runTask: the code that executes between    *)
(* two awaits.  The external capabilities (generator, workspace provider,  *)
(* verification, artifact store) answer nondeterministically, including by *)
(* throwing.  The SQLite layer and the in-process EventEmitter are taken   *)
(* to be reliable.                                                         *)
(*                                                                         *)
(* SpecStore: the task_events table (createTaskEvent / getTaskEvents) with *)
(* the millisecond clock its timestamps are read from.                     *)
(*                                                                         *)
(* SpecApply: the loop of patcher.applyPatches over a ChangeSet, one       *)
(* action per entry.                                                       *)
(*                                                                         *)
(* SpecFile: one call of patcher.applyPatchToFile on a file and a change   *)
(* text, with texts as sequences of lines and lines as sequences of        *)
(* characters; the calls of the fs module may throw.                       *)
(*                                                                         *)
(* SpecTests: one call of testRunner.runTests with its test process: the   *)
(* data, close and error events and the timeout, in any order.             *)
(*                                                                         *)
(* SpecFn: one application of parseJestOutput or of extractErrors to a     *)
(* transcript, a sequence of characters.                                   *)
(*                                                                         *)
(* SpecRetry: one call of withRetry around an operation that returns or    *)
(* rejects; every awaited promise settles.                                 *)
(*                                                                         *)
(* SpecLimits: calls of checkRateLimit as time passes.                     *)
(*                                                                         *)
(* SpecCancel: the orchestration loop with a cancellation request made     *)
(* while it runs.                                                          *)
(***************************************************************************)
EXTENDS Integers, Sequences, FiniteSets, TLC

\* ------------------------------------------------------------------ bounds
\* largest task.maxIterations explored
MaxIter == 3

\* ------------------------------------------------------- domains of inputs
\* verification transcripts (TestResult.output); "" is the empty transcript
Transcripts == {"", "t1", "t2"}

\* results runTests can resolve with: errors is non-empty only on a failure;
\* "timed out" is the transcript of the timeout handler (testRunner.ts lines
\* 77-85), which ends with 'Test process timed out'
TestResults ==
    {[passed |-> TRUE, output |-> o, nerrors |-> 0] : o \in Transcripts}
    \cup {[passed |-> FALSE, output |-> "", nerrors |-> 0],
          [passed |-> FALSE, output |-> "t1", nerrors |-> 1],
          [passed |-> FALSE, output |-> "t2", nerrors |-> 0],
          [passed |-> FALSE, output |-> "timed out", nerrors |-> 1]}

\* ChangeSets (AgentResponse.patches) as the sequence of their file paths;
\* <<>> stands for an empty or missing patches array
ChangeSets == {<<>>, <<"a">>, <<"b">>}

\* the null of lastTestResult / lastPatches
Null == [null |-> TRUE]

\* PatchesResponse object built at orchestrator.ts line 127
PatchesResponse(ps) == [patches |-> ps]

\* a task_events row, reduced to its type and message
Ev(t, m) == [type |-> t, msg |-> m]

TerminalStatuses == {"completed", "failed"}

VARIABLES
    pc,             \* the await runTask is suspended at ("idle" before startTask)
    outcome,        \* how runTask ended: running, normal, error, rejected
    task,           \* the tasks row: status, currentIteration, maxIterations
    statusLog,      \* every updateTaskStatus write so far, <<status, iteration>>
    events,         \* the task_events rows in insertion order
    iteration,      \* runTask local
    lastTestResult, \* runTask local
    lastPatches,    \* runTask local
    allPatches,     \* runTask local
    allTestResults, \* runTask local
    requests,       \* arguments of every runAgentIteration call so far
    responses,      \* the AgentResponse of every runAgentIteration call that returned
    calls,          \* capability calls so far, [op, iter]
    applyLog,       \* every result of patcher.applyPatches so far
    store,          \* the task_events table and the clock of database/index.ts
    pf,             \* one call of patcher.applyPatchToFile and its file
    ap,             \* one call of patcher.applyPatches
    tr,             \* one call of testRunner.runTests and its test process
    fn,             \* one application of a pure function: input and result
    rt,             \* one call of withRetry (gemini service)
    rl,             \* rateLimitStore and the clock of checkRateLimit
    cancel,         \* the cancellation signal sent to a running task
    disk,           \* the directories and files under the work directory
    wss,            \* the WebSocket server of index.ts: clients and subscriptions
    users           \* userStore and emailIndex of the demo repository

vars == <<pc, outcome, task, statusLog, events, iteration, lastTestResult,
          lastPatches, allPatches, allTestResults, requests, responses,
          calls, applyLog>>

\* the state of the components that run beside the orchestration loop
others == <<store, pf, ap, tr, fn, rt, rl, cancel, disk, wss, users>>

allVars == <<vars, others>>

Last(s) == s[Len(s)]

\* ---------------------------------------------------------------- helpers

\* writes that leave current_iteration as it is (updateTaskStatus called
\* without its iteration argument)
StatusAfterWithoutIteration(t, ws) ==
    IF ws = <<>> THEN t
    ELSE [t EXCEPT !.status = Last(ws)[1]]

\* database/index.ts updateTaskStatus, applied for a sequence of writes
StatusAfter(t, ws) ==
    IF ws = <<>> THEN t
    ELSE [t EXCEPT !.status = Last(ws)[1], !.currentIteration = Last(ws)[2]]

\* orchestrator.ts line 62: the loop condition
LoopContinues(it, max) == it < max

\* variant: iterations >= 2 start in analyzing
IterationStatusAnalyzing(it) == IF it = 1 THEN "planning" ELSE "analyzing"

\* orchestrator.ts line 65: status written at the start of an iteration
IterationStatus(it) == IF it = 1 THEN "planning" ELSE "fixing"

\* orchestrator.ts lines 77 and 97: status written before the generator call
AgentStatus(it) == IF it = 1 THEN "planning" ELSE "analyzing"

\* orchestrator.ts line 99: the guard of iterations >= 2
MissingPrevious(ltr, lp) == ltr = Null \/ lp = Null

\* orchestrator.ts lines 78-81 and 103-108: arguments of runAgentIteration
AgentRequest(it, ltr, lp) ==
    IF it = 1
    THEN [iter |-> it, hasPrev |-> FALSE, output |-> "", patches |-> Null]
    ELSE [iter |-> it, hasPrev |-> TRUE, output |-> ltr.output, patches |-> lp]

\* artifacts.ts (gemini service) line 521: which path runAgentIteration takes
FixPath(req) == req.hasPrev /\ req.output # "" /\ req.patches # Null

\* gemini service lines 525-546: shape of the AgentResponse
AgentResponse(req, ps) ==
    IF FixPath(req)
    THEN [plan |-> FALSE, explanation |-> TRUE, patches |-> ps]
    ELSE [plan |-> TRUE, explanation |-> FALSE, patches |-> ps]

\* variant: the test on the iteration number is inverted
AgentEventsInverted(it, resp) ==
    IF it # 1
    THEN (IF resp.plan THEN <<Ev("plan", "Generated implementation plan")>>
          ELSE <<>>)
    ELSE <<Ev("analysis", "Analyzed failure")>>

\* orchestrator.ts lines 83-85 and 110-112: event emitted after the generator
AgentEvents(it, resp) ==
    IF it = 1
    THEN (IF resp.plan THEN <<Ev("plan", "Generated implementation plan")>>
          ELSE <<>>)
    ELSE <<Ev("analysis", "Analyzed failure")>>

\* variant: off-by-one length test
ShouldApplyMoreThanOne(ps) == Len(ps) > 1

\* orchestrator.ts line 116: is the ChangeSet handed to the applier
ShouldApply(ps) == Len(ps) > 0

\* patcher.ts applyPatches: every entry lands in applied or in failed
\* according to whether its applyPatchToFile threw (bad[i])
RECURSIVE ApplyPatches(_, _)
ApplyPatches(ps, bad) ==
    IF ps = <<>> THEN [applied |-> <<>>, failed |-> <<>>]
    ELSE LET n == Len(ps)
             r == ApplyPatches(SubSeq(ps, 1, n - 1), bad)
         IN IF bad[n]
            THEN [applied |-> r.applied, failed |-> Append(r.failed, ps[n])]
            ELSE [applied |-> Append(r.applied, ps[n]), failed |-> r.failed]

\* variant: a ChangeSet that did not apply completely ends the run
PatchResultAbortsOnFailure(res) == res.failed # <<>>

\* orchestrator.ts lines 122-124: the result of applyPatches is handed to
\* emitEvent and to nothing else; no outcome of it ends the iteration
PatchResultAborts(res) == FALSE

\* orchestrator.ts line 169: leave the loop
BreakOnPass(res) == res.passed

\* orchestrator.ts lines 151 and 170-177: events after a verification
TestEvents(res) ==
    <<Ev("test-result", IF res.passed THEN "Tests PASSED" ELSE "Tests FAILED")>>
    \o (IF res.passed THEN <<Ev("success", "All tests passed!")>>
        ELSE IF res.nerrors > 0 THEN <<Ev("errors", "Test errors")>>
        ELSE <<>>)

\* variant: the last result is not consulted
FinalStatusIgnoringResult(ltr) == "completed"

\* orchestrator.ts line 199
FinalStatus(ltr) ==
    IF ltr # Null /\ ltr.passed THEN "completed" ELSE "failed"

\* variant: the final status is never written
NormalExitWritesNone(ltr, it) == <<>>

\* orchestrator.ts line 200: the status write of the normal exit
NormalExitWrites(ltr, it) == <<<<FinalStatus(ltr), it>>>>

\* orchestrator.ts line 202
NormalExitEvents(ltr) == <<Ev("complete", FinalStatus(ltr))>>

\* variant: the catch block only logs to the console
CatchEventsNone(err) == <<>>

\* orchestrator.ts line 212: the event of the catch block
CatchEvents(err) == <<Ev("error", err)>>

\* variant: the catch block writes the iteration of the Task object it was
\* handed, which is 0
CatchWritesTaskObject(it) == <<<<"failed", 0>>>>

\* orchestrator.ts line 213: the status write of the catch block
CatchWrites(it) == <<<<"failed", it>>>>

\* ----------------------------------------------------------------- effects
\* Every action ends in one of the two shapes below.  evs, ws and cs are the
\* events emitted, the status writes made and the capability calls made by
\* the segment, in program order.

Continue(evs, ws, cs, next) ==
    /\ events' = events \o evs
    /\ statusLog' = statusLog \o ws
    /\ task' = StatusAfter(task, ws)
    /\ calls' = calls \o cs
    /\ pc' = next
    /\ outcome' = outcome

\* the segment threw err with the local iteration equal to it: the catch
\* block (lines 208-216) runs; its saveLog may throw in turn, in which case
\* runTask rejects and startTask's .catch logs it (line 238)
Catch(evs, ws, cs, it, err) ==
    /\ events' = events \o evs \o CatchEvents(err)
    /\ statusLog' = statusLog \o ws \o CatchWrites(it)
    /\ task' = StatusAfter(task, ws \o CatchWrites(it))
    /\ calls' = calls \o cs
    /\ pc' = "done"
    /\ \E saveLogThrows \in BOOLEAN :
          outcome' = IF saveLogThrows THEN "rejected" ELSE "error"

\* ------------------------------------------- task_events (database/index.ts)
\* largest number of rows inserted into task_events
MaxEvents == 3

\* largest value of the millisecond clock new Date() reads
MaxClock == 2

\* ids of the tasks whose events share the table
TaskIds == {"t1", "t2"}

\* the result of no getTaskEvents call yet
NoRead == [taskId |-> "none", emitted |-> <<>>, returned |-> <<>>]

\* the empty table
NoStore == [clock |-> 0, rows |-> <<>>, read |-> NoRead]

\* the row createTaskEvent inserts: n stands for its uuid, type and message,
\* timestamp is new Date().toISOString(), a whole number of milliseconds
TaskEventRow(taskId, n, clock) ==
    [taskId |-> taskId, n |-> n, timestamp |-> clock]

\* WHERE task_id = ?: the rows of one task, in insertion order
RowsOf(taskId, rows) == SelectSeq(rows, LAMBDA r : r.taskId = taskId)

\* ORDER BY timestamp: the only order the query asks for
OrderedByTimestamp(s) ==
    \A i, j \in DOMAIN s : i < j => s[i].timestamp <= s[j].timestamp

\* every result getTaskEvents may return: the task's rows in an order that
\* satisfies ORDER BY timestamp; rows of equal timestamp come in any order
GetTaskEvents(taskId, rows) ==
    LET mine == RowsOf(taskId, rows)
        n == Len(mine)
        Bijections == {f \in [1..n -> 1..n] : \A i, j \in 1..n : f[i] = f[j] => i = j}
    IN {p \in {[i \in 1..n |-> mine[f[i]]] : f \in Bijections} : OrderedByTimestamp(p)}

\* -------------------------------------------- texts (patcher.ts, strings)
\* A line is the sequence of its characters and a text is the non-empty
\* sequence of lines that text.split('\n') yields: '' is <<EmptyLine>> and
\* 'old\n' is <<"old", EmptyLine>>.  array.join('\n') is the inverse, with
\* [].join('\n') = ''.
EmptyLine == <<>>

EmptyText == <<EmptyLine>>

\* array.join('\n') followed by split('\n')
JoinLines(ls) == IF ls = <<>> THEN EmptyText ELSE ls

\* line.startsWith(prefix)
StartsWith(line, prefix) ==
    /\ Len(line) >= Len(prefix)
    /\ SubSeq(line, 1, Len(prefix)) = prefix

\* line.slice(1)
Slice1(line) == IF line = <<>> THEN <<>> ELSE Tail(line)

\* text.endsWith('\n')
EndsWithNewline(t) == Len(t) >= 2 /\ Last(t) = EmptyLine

IsWhitespace(line) == \A i \in DOMAIN line : line[i] = " "

TrimStart(line) ==
    LET i == CHOOSE k \in DOMAIN line :
                 line[k] # " " /\ \A j \in 1..(k - 1) : line[j] = " "
    IN SubSeq(line, i, Len(line))

TrimEnd(line) ==
    LET i == CHOOSE k \in DOMAIN line :
                 line[k] # " " /\ \A j \in (k + 1)..Len(line) : line[j] = " "
    IN SubSeq(line, 1, i)

\* text.trim(): leading and trailing blanks and newlines removed
Trim(t) ==
    IF \A i \in DOMAIN t : IsWhitespace(t[i]) THEN EmptyText
    ELSE LET first == CHOOSE k \in DOMAIN t :
                         ~IsWhitespace(t[k]) /\ \A j \in 1..(k - 1) : IsWhitespace(t[j])
             last == CHOOSE k \in DOMAIN t :
                         ~IsWhitespace(t[k]) /\ \A j \in (k + 1)..Len(t) : IsWhitespace(t[j])
         IN IF first = last
            THEN <<TrimEnd(TrimStart(t[first]))>>
            ELSE <<TrimStart(t[first])>> \o SubSeq(t, first + 1, last - 1)
                 \o <<TrimEnd(t[last])>>

\* the lines the inputs are made of
\* the backquote character
Backquote == "BACKQUOTE"

\* a code-fence line
Fence == <<Backquote, Backquote, Backquote>>

HeaderOld == <<"-", "-", "-", " ", "a">>

HeaderNew == <<"+", "+", "+", " ", "b">>

\* '@@ -os,ol +ns,nl @@' for one-digit numbers
HunkHeader(os, ol, ns, nl) ==
    <<"@", "@", " ", "-", ToString(os), ",", ToString(ol), " ",
      "+", ToString(ns), ",", ToString(nl), " ", "@", "@">>

Removed(c) == <<"-", c>>

Added(c) == <<"+", c>>

Context(c) == <<" ", c>>

Plain(c) == <<c>>

\* ------------------------------------- the diff library (parsePatch, applyPatch)
\* The library is called at patcher.ts lines 16 and 24; it is modelled by
\* what its non-strict parser and its applier (fuzzFactor 0) do.
IsDigit(c) == \E n \in 0..9 : ToString(n) = c

DigitValue(c) == CHOOSE n \in 0..9 : ToString(n) = c

\* /^(---|\+\+\+|@@)\s/: where the parser stops skipping leading text
IsHeaderStart(line) ==
    \/ StartsWith(line, <<"-", "-", "-", " ">>)
    \/ StartsWith(line, <<"+", "+", "+", " ">>)
    \/ StartsWith(line, <<"@", "@", " ">>)

\* /^(---|\+\+\+)\s+(.*)$/: a file header
IsFileHeader(line) ==
    \/ StartsWith(line, <<"-", "-", "-", " ">>)
    \/ StartsWith(line, <<"+", "+", "+", " ">>)

\* /@@ -(\d+)(?:,(\d+))? \+(\d+)(?:,(\d+))? @@/ on a header written with
\* one-digit numbers and both counts
ParseHunkHeader(line) ==
    IF /\ Len(line) = 15
       /\ SubSeq(line, 1, 4) = <<"@", "@", " ", "-">>
       /\ IsDigit(line[5]) /\ line[6] = "," /\ IsDigit(line[7])
       /\ SubSeq(line, 8, 9) = <<" ", "+">>
       /\ IsDigit(line[10]) /\ line[11] = "," /\ IsDigit(line[12])
       /\ SubSeq(line, 13, 15) = <<" ", "@", "@">>
    THEN [oldStart |-> DigitValue(line[5]), oldLines |-> DigitValue(line[7]),
          newStart |-> DigitValue(line[10]), newLines |-> DigitValue(line[12])]
    ELSE [oldStart |-> "NaN", oldLines |-> 1, newStart |-> "NaN", newLines |-> 1]

\* the operation of a line inside a hunk
HunkOp(line) == IF line = <<>> THEN " " ELSE line[1]

\* the old side of a hunk: its context and removed lines, without prefix
OldSide(hunkLines) ==
    LET keep == SelectSeq(hunkLines, LAMBDA l : HunkOp(l) \in {" ", "-"})
    IN [k \in DOMAIN keep |-> Slice1(keep[k])]

\* the new side of a hunk: its context and added lines, without prefix
NewSide(hunkLines) ==
    LET keep == SelectSeq(hunkLines, LAMBDA l : HunkOp(l) \in {" ", "+"})
    IN [k \in DOMAIN keep |-> Slice1(keep[k])]

\* parseHunk: the header at d[i] and the run of lines after it that start
\* with '+', '-', ' ' or '\'; an empty line counts as context unless it is
\* the last line of the text
ParseHunk(d, i) ==
    LET n == Len(d)
        hdr == ParseHunkHeader(d[i])
        Op(j) == IF Len(d[j]) = 0
                 THEN (IF j # n THEN " " ELSE "undefined")
                 ELSE d[j][1]
        NextFileStarts(j) ==
            /\ StartsWith(d[j], <<"-", "-", "-", " ">>)
            /\ j + 2 <= n
            /\ StartsWith(d[j + 1], <<"+", "+", "+", " ">>)
            /\ StartsWith(d[j + 2], <<"@", "@">>)
        IsHunkLine(j) == ~NextFileStarts(j) /\ Op(j) \in {"+", "-", " ", "\\"}
        end == IF \E j \in (i + 1)..n : ~IsHunkLine(j)
               THEN CHOOSE j \in (i + 1)..n :
                        ~IsHunkLine(j) /\ \A k \in (i + 1)..(j - 1) : IsHunkLine(k)
               ELSE n + 1
        lines == SubSeq(d, i + 1, end - 1)
        addCount == Len(NewSide(lines))
        removeCount == Len(OldSide(lines))
    IN [hunk |->
          [oldStart |-> IF hdr.oldLines = 0 THEN hdr.oldStart + 1 ELSE hdr.oldStart,
           oldLines |-> IF removeCount = 0 /\ hdr.oldLines = 1 THEN 0 ELSE hdr.oldLines,
           newStart |-> IF hdr.newLines = 0 THEN hdr.newStart + 1 ELSE hdr.newStart,
           newLines |-> IF addCount = 0 /\ hdr.newLines = 1 THEN 0 ELSE hdr.newLines,
           lines |-> lines],
        next |-> end]

\* the hunk loop of parseIndex from line i on: a further file header ends
\* the index, '@@' starts a hunk, any other line is ignored
RECURSIVE ParseHunks(_, _)
ParseHunks(d, i) ==
    IF i > Len(d) THEN <<>>
    ELSE IF IsFileHeader(d[i]) THEN <<>>
    ELSE IF StartsWith(d[i], <<"@", "@">>)
         THEN LET h == ParseHunk(d, i)
              IN <<h.hunk>> \o ParseHunks(d, h.next)
         ELSE ParseHunks(d, i + 1)

\* diff.parsePatch(diffText): leading text is skipped up to the first header
\* line, up to two file headers are read, then the hunks.  The list always
\* has a first entry, also for a text without any header; the entries after
\* the first, which applyUnifiedDiff never reads, are left out.
ParsePatch(d) ==
    LET n == Len(d)
        i1 == IF \E j \in 1..n : IsHeaderStart(d[j])
              THEN CHOOSE j \in 1..n :
                       IsHeaderStart(d[j]) /\ \A k \in 1..(j - 1) : ~IsHeaderStart(d[k])
              ELSE n + 1
        i2 == IF i1 <= n /\ IsFileHeader(d[i1]) THEN i1 + 1 ELSE i1
        i3 == IF i2 <= n /\ IsFileHeader(d[i2]) THEN i2 + 1 ELSE i2
    IN <<[hunks |-> ParseHunks(d, i3)]>>

\* diff.applyPatch(source, patch) for a patch of at most one hunk: the hunk
\* is placed where its old side matches the source, at the stated line or
\* else at the nearest line (later before earlier) between line 0 and
\* lines.length - oldLines; without such a place the result is false
ApplyPatch(source, patch) ==
    IF patch.hunks = <<>> THEN [ok |-> TRUE, text |-> source]
    ELSE LET h == patch.hunks[1]
             old == OldSide(h.lines)
             new == NewSide(h.lines)
             toPos == h.oldStart - 1
             maxLine == Len(source) - h.oldLines
             Fits(p) == \A k \in DOMAIN old :
                            p + k \in DOMAIN source /\ source[p + k] = old[k]
             Forward(dd) == toPos + dd <= maxLine /\ Fits(toPos + dd)
             Backward(dd) == 0 <= toPos - dd /\ Fits(toPos - dd)
             Hit(dd) == IF dd = 0 THEN Fits(toPos) ELSE Forward(dd) \/ Backward(dd)
             Reach == 0..(Len(source) + 10)
         IN IF \A dd \in Reach : ~Hit(dd) THEN [ok |-> FALSE, text |-> source]
            ELSE LET best == CHOOSE dd \in Reach :
                                 Hit(dd) /\ \A e \in 0..(dd - 1) : ~Hit(e)
                     at == IF best = 0 \/ Forward(best)
                           THEN toPos + best ELSE toPos - best
                     pos == IF at > Len(source) THEN Len(source) ELSE at
                 IN [ok |-> TRUE,
                     text |-> SubSeq(source, 1, pos) \o new
                              \o SubSeq(source, pos + Len(old) + 1, Len(source))]

\* --------------------------------------------- applyPatchToFile (patcher.ts)
\* applyUnifiedDiff (lines 14-31); ok = FALSE is the throw of line 27
ApplyUnifiedDiff(originalContent, diffText) ==
    LET patches == ParsePatch(diffText)
    IN IF Len(patches) = 0 THEN [ok |-> TRUE, text |-> originalContent]
       ELSE ApplyPatch(originalContent, patches[1])

\* lines 74-79
HasAnyDiffMarkers(lines) ==
    \E i \in DOMAIN lines :
        \/ StartsWith(lines[i], <<"@", "@">>)
        \/ StartsWith(lines[i], <<"-", "-", "-">>)
        \/ StartsWith(lines[i], <<"+", "+", "+">>)

\* the loop of lines 92-123: newLines after the first n lines, and inHunk
RECURSIVE ProcessAsDiff(_, _)
ProcessAsDiff(lines, n) ==
    IF n = 0 THEN [newLines |-> <<>>, inHunk |-> FALSE]
    ELSE LET before == ProcessAsDiff(lines, n - 1)
             line == lines[n]
         IN IF StartsWith(line, <<"-", "-", "-">>) \/ StartsWith(line, <<"+", "+", "+">>)
            THEN before
            ELSE IF StartsWith(line, <<"@", "@">>)
            THEN [before EXCEPT !.inHunk = TRUE]
            ELSE IF ~before.inHunk THEN before
            ELSE IF StartsWith(line, <<"+">>)
            THEN [before EXCEPT !.newLines = Append(@, Slice1(line))]
            ELSE IF StartsWith(line, <<"-">>) THEN before
            ELSE IF StartsWith(line, <<" ">>)
            THEN [before EXCEPT !.newLines = Append(@, Slice1(line))]
            ELSE [before EXCEPT !.newLines = Append(@, line)]

\* extractNewContent (lines 67-139)
ExtractNewContent(diffText, originalContent) ==
    LET lines == diffText
    IN IF ~HasAnyDiffMarkers(lines)
       THEN LET cleaned == Trim(JoinLines(SelectSeq(lines,
                                   LAMBDA l : ~StartsWith(l, Fence))))
            IN IF cleaned # EmptyText THEN cleaned ELSE originalContent
       ELSE LET newLines == ProcessAsDiff(lines, Len(lines)).newLines
            IN IF Len(newLines) = 0 THEN originalContent
               ELSE IF EndsWithNewline(originalContent) /\ ~EndsWithNewline(newLines)
                    THEN Append(newLines, EmptyLine)
                    ELSE newLines

\* variant: a diff that does not apply is rethrown to applyPatches
AfterDiffFailureRethrow == "threw"

\* line 55: the throw of applyUnifiedDiff is caught and the fallback runs
AfterDiffFailure == "catch"

\* most lines of a change text after its file and hunk headers
MaxBody == 3

\* data events of the test process in one run of runTests
MaxChunks == 2

\* lines of a transcript given to parseJestOutput
MaxPhrases == 3

\* lines of a transcript given to extractErrors
MaxLines == 6

\* calls of checkRateLimit
MaxCalls == 7

\* the latest time of a call of checkRateLimit, in ms
MaxNow == 60001

\* lines a change text has after its headers; the last one is the added
\* line '++i': a '+' and the text of the new line
BodyLines ==
    {Removed("o"), Added("n"), Context("o"), Plain("n"), Fence, EmptyLine,
     <<"+", "+", "+", "i">>}

\* Patch.diff: optional file headers, an optional hunk header, then up to
\* MaxBody lines; the text '' is the single empty line
ChangeTexts ==
    {fh \o hh \o body :
        fh \in {<<>>, <<HeaderOld, HeaderNew>>},
        hh \in {<<>>, <<HunkHeader(1, 1, 1, 1)>>, <<HunkHeader(0, 0, 1, 1)>>},
        body \in UNION {[1..n -> BodyLines] : n \in 0..MaxBody}} \ {<<>>}

\* the file at path.join(repoPath, patch.file) before the call
Files ==
    {[exists |-> FALSE, content |-> EmptyText]}
    \cup {[exists |-> TRUE, content |-> c] :
             c \in {EmptyText,
                    <<Plain("o"), EmptyLine>>,
                    <<Plain("o"), Plain("k"), EmptyLine>>,
                    <<Plain("k"), EmptyLine>>}}

\* applyPatchToFile entered (line 36); writes and faults record the
\* writeFileSync calls that returned and the fs calls that threw
FileStart(f, d) ==
    [pc |-> "start", exists |-> f.exists, content |-> f.content, prior |-> f.content,
     diff |-> d, orig |-> EmptyText, cause |-> "none", writes |-> <<>>,
     faults |-> <<>>]

\* fs.writeFileSync(filePath, text) returned
Written(f, by, text) ==
    [f EXCEPT !.pc = "returned", !.exists = TRUE, !.content = text,
              !.writes = Append(@, [by |-> by, text |-> text])]

\* ------------------------------------------------ applyPatches (patcher.ts)
\* largest number of entries in a ChangeSet handed to applyPatches
MaxPatches == 3

\* Patch.file of the entries
FilePaths == {"a", "b"}

\* the ChangeSets applyPatches is called with, as the sequence of their
\* paths; a path may occur in more than one entry
PatchLists == UNION {[1..n -> FilePaths] : n \in 0..MaxPatches}

\* applyPatches entered: const applied = [], failed = [] (lines 145-146);
\* threw records, per entry attempted, whether applyPatchToFile threw
ApplyStart(ps) ==
    [pc |-> "loop", patches |-> ps, i |-> 1, applied |-> <<>>,
     failed |-> <<>>, threw |-> <<>>]

\* a variant of the loop body that rethrows: the first failure ends the call
AfterEntryRethrow(a, threw) ==
    IF threw
    THEN [a EXCEPT !.i = Len(a.patches) + 1,
                   !.failed = Append(@, a.patches[a.i]),
                   !.threw = Append(@, threw)]
    ELSE [a EXCEPT !.i = @ + 1,
                   !.applied = Append(@, a.patches[a.i]),
                   !.threw = Append(@, threw)]

\* one pass of the for-of body (lines 148-157): try applyPatchToFile, push
\* the path to applied, or to failed in the catch, and go on to the next entry
AfterEntry(a, threw) ==
    [a EXCEPT !.i = @ + 1,
              !.applied = IF threw THEN @ ELSE Append(@, a.patches[a.i]),
              !.failed = IF threw THEN Append(@, a.patches[a.i]) ELSE @,
              !.threw = Append(@, threw)]

\* ------------------------------------ transcripts (testRunner.ts, strings)
\* A transcript is a string: a sequence of characters in which "\n" ends a
\* line.

\* the words and character classes of the patterns of parseJestOutput and
\* extractErrors; bullet is the second marker of line 168 as the source file
\* spells it: U+201A, U+00F3, U+00E8 and a space
Lex ==
    [Tests |-> <<"T", "e", "s", "t", "s", ":">>,
     Suites |-> <<"T", "e", "s", "t", " ", "S", "u", "i", "t", "e", "s", ":">>,
     failed |-> <<"f", "a", "i", "l", "e", "d">>,
     passed |-> <<"p", "a", "s", "s", "e", "d">>,
     total |-> <<"t", "o", "t", "a", "l">>,
     FAIL |-> <<"F", "A", "I", "L">>,
     bullet |-> <<"U+201A", "U+00F3", "U+00E8", " ">>,
     space |-> {" ", "\n"},
     digit |-> {ToString(n) : n \in 0..9}]

\* the decimal digits of n
RECURSIVE NumText(_)
NumText(n) ==
    IF n < 10 THEN <<ToString(n)>> ELSE NumText(n \div 10) \o <<ToString(n % 10)>>

\* s has lit at position i
MatchAt(s, i, lit) ==
    /\ i + Len(lit) - 1 <= Len(s)
    /\ \A k \in 1..Len(lit) : s[i + k - 1] = lit[k]

\* s.includes(lit)
Includes(s, lit) == \E i \in 1..(Len(s) + 1) : MatchAt(s, i, lit)

\* \d+ and \s+: the position after the longest run of characters of the
\* class that starts at i
RunEnd(s, i, class) ==
    CHOOSE j \in i..(Len(s) + 1) :
        /\ \A k \in i..(j - 1) : s[k] \in class
        /\ j = Len(s) + 1 \/ s[j] \notin class

\* parseInt(digits, 10) of the digits s[i..j-1]
RECURSIVE ParseInt(_, _, _)
ParseInt(s, i, j) ==
    IF j <= i THEN 0 ELSE ParseInt(s, i, j - 1) * 10 + DigitValue(s[j - 1])

\* (\d+)\s+word at position i: the number and the position after the word
CountAt(s, i, word) ==
    LET d == RunEnd(s, i, Lex.digit)
        w == RunEnd(s, d, Lex.space)
    IN IF i <= Len(s) /\ d > i /\ w > d /\ MatchAt(s, w, word)
       THEN [ok |-> TRUE, value |-> ParseInt(s, i, d), end |-> w + Len(word)]
       ELSE [ok |-> FALSE]

\* /Tests:\s+(\d+)\s+failed,\s+(\d+)\s+passed,\s+(\d+)\s+total/ at position i
TestsAt(s, i) ==
    LET Spaced(j, word) ==
            IF j <= Len(s) /\ RunEnd(s, j, Lex.space) > j
            THEN CountAt(s, RunEnd(s, j, Lex.space), word)
            ELSE [ok |-> FALSE]
        f == Spaced(i + Len(Lex.Tests), Lex.failed \o <<",">>)
        p == Spaced(f.end, Lex.passed \o <<",">>)
        t == Spaced(p.end, Lex.total)
    IN IF MatchAt(s, i, Lex.Tests) /\ f.ok /\ p.ok /\ t.ok
       THEN [ok |-> TRUE, failed |-> f.value, passed |-> p.value,
             total |-> t.value]
       ELSE [ok |-> FALSE]

\* String.prototype.match: of the matches at the positions of a string the
\* leftmost one
FirstMatch(ms) ==
    IF \E i \in DOMAIN ms : ms[i].ok
    THEN ms[CHOOSE i \in DOMAIN ms : ms[i].ok /\ \A j \in 1..(i - 1) : ~ms[j].ok]
    ELSE [ok |-> FALSE]

\* lines 139-153: the counts matched one by one
SingleCounts(output) ==
    LET Match(word) == FirstMatch([i \in DOMAIN output |-> CountAt(output, i, word)])
        passedMatch == Match(Lex.passed)
        failedMatch == Match(Lex.failed)
        totalMatch == Match(Lex.total)
        passed == IF passedMatch.ok THEN passedMatch.value ELSE 0
        failed == IF failedMatch.ok THEN failedMatch.value ELSE 0
    IN [failed |-> failed,
        passed |-> passed,
        total |-> IF totalMatch.ok THEN totalMatch.value ELSE passed + failed]

\* a parser that raises the total of a full line to passed + failed
ParseJestOutputRepairing(output) ==
    LET testsMatch == FirstMatch([i \in DOMAIN output |-> TestsAt(output, i)])
        sum == testsMatch.failed + testsMatch.passed
    IN IF testsMatch.ok
       THEN [failed |-> testsMatch.failed,
             passed |-> testsMatch.passed,
             total |-> IF testsMatch.total < sum THEN sum ELSE testsMatch.total]
       ELSE SingleCounts(output)

\* parseJestOutput, lines 125-154
ParseJestOutput(output) ==
    LET testsMatch == FirstMatch([i \in DOMAIN output |-> TestsAt(output, i)])
    IN IF testsMatch.ok
       THEN [failed |-> testsMatch.failed,
             passed |-> testsMatch.passed,
             total |-> testsMatch.total]
       ELSE SingleCounts(output)

\* output.split('\n'): the lines of a transcript
RECURSIVE Split(_)
Split(s) ==
    IF \A i \in DOMAIN s : s[i] # "\n" THEN <<s>>
    ELSE LET i == CHOOSE k \in DOMAIN s :
                      s[k] = "\n" /\ \A j \in 1..(k - 1) : s[j] # "\n"
         IN <<SubSeq(s, 1, i - 1)>> \o Split(SubSeq(s, i + 1, Len(s)))

\* the loop of extractErrors over lines k.. with the locals errors,
\* currentError and inError, lines 164-184; an excerpt is a text
RECURSIVE ScanErrors(_, _, _, _, _)
ScanErrors(lines, k, errors, currentError, inError) ==
    IF k > Len(lines)
    THEN [errors |-> errors, currentError |-> currentError]
    ELSE LET line == lines[k]
         IN IF Includes(line, Lex.FAIL) \/ Includes(line, Lex.bullet)
            THEN ScanErrors(lines, k + 1,
                            IF currentError # EmptyText
                            THEN Append(errors, Trim(currentError)) ELSE errors,
                            <<line>>, TRUE)
            ELSE IF inError
            THEN IF IsWhitespace(line) /\ currentError # EmptyText
                 THEN ScanErrors(lines, k + 1, Append(errors, Trim(currentError)),
                                 EmptyText, FALSE)
                 ELSE ScanErrors(lines, k + 1, errors,
                                 Append(currentError, line), TRUE)
            ELSE ScanErrors(lines, k + 1, errors, currentError, inError)

\* an extractErrors that keeps the last excerpts
ExtractErrorsKeepingLast(output) ==
    LET r == ScanErrors(Split(output), 1, <<>>, EmptyText, FALSE)
        errors == IF r.currentError # EmptyText
                  THEN Append(r.errors, Trim(r.currentError)) ELSE r.errors
    IN SubSeq(errors, IF Len(errors) < 5 THEN 1 ELSE Len(errors) - 4, Len(errors))

\* extractErrors, lines 159-191
ExtractErrors(output) ==
    LET r == ScanErrors(Split(output), 1, <<>>, EmptyText, FALSE)
        errors == IF r.currentError # EmptyText
                  THEN Append(r.errors, Trim(r.currentError)) ELSE r.errors
    IN SubSeq(errors, 1, IF Len(errors) < 5 THEN Len(errors) ELSE 5)

\* A transcript line of Jest is described by what it reports: a kind and the
\* counts it carries, each count a sequence of no or one number.
Phrase(kind, failed, passed, total) ==
    [kind |-> kind, failed |-> failed, passed |-> passed, total |-> total]

\* 'F failed, P passed, T total' with the absent counts left out
CountList(ph) ==
    LET Text(count, word) ==
            IF count = <<>> THEN <<>> ELSE <<NumText(count[1]) \o <<" ">> \o word>>
        parts == Text(ph.failed, Lex.failed) \o Text(ph.passed, Lex.passed)
                 \o Text(ph.total, Lex.total)
    IN IF Len(parts) = 0 THEN <<>>
       ELSE IF Len(parts) = 1 THEN parts[1]
       ELSE IF Len(parts) = 2 THEN parts[1] \o <<",", " ">> \o parts[2]
       ELSE parts[1] \o <<",", " ">> \o parts[2] \o <<",", " ">> \o parts[3]

\* the characters of a line
PhraseText(ph) ==
    IF ph.kind = "tests" THEN Lex.Tests \o <<" ", " ">> \o CountList(ph)
    ELSE IF ph.kind = "suites" THEN Lex.Suites \o <<" ">> \o CountList(ph)
    ELSE IF ph.kind = "counts" THEN CountList(ph)
    ELSE <<"o", "k">>

\* the lines Jest and npm print
JestPhrases ==
    { Phrase("tests", <<1>>, <<2>>, <<2>>),
      Phrase("tests", <<0>>, <<3>>, <<3>>),
      Phrase("tests", <<2>>, <<10>>, <<12>>),
      Phrase("tests", <<>>, <<2>>, <<2>>),
      Phrase("suites", <<1>>, <<1>>, <<2>>),
      Phrase("counts", <<>>, <<4>>, <<>>),
      Phrase("counts", <<5>>, <<>>, <<>>),
      Phrase("counts", <<>>, <<>>, <<6>>),
      Phrase("noise", <<>>, <<>>, <<>>) }

\* the lines of a transcript with failures: ' FAIL a', a line with the
\* second marker, a line of text, a line of white space and the empty line
TranscriptLines ==
    { <<" ">> \o Lex.FAIL \o <<" ", "a">>, Lex.bullet \o <<"b">>, <<"x">>, <<" ">>,
      EmptyLine }

\* lines.join('\n')
RECURSIVE JoinChars(_)
JoinChars(ls) ==
    IF ls = <<>> THEN <<>>
    ELSE IF Len(ls) = 1 THEN ls[1]
    ELSE ls[1] \o <<"\n">> \o JoinChars(Tail(ls))

\* ------------------------------------------------- runTests (testRunner.ts)
\* what the test process writes in one data event
Chunks ==
    { PhraseText(Phrase("tests", <<1>>, <<2>>, <<3>>)) \o <<"\n">>,
      PhraseText(Phrase("counts", <<>>, <<2>>, <<>>)) \o <<"\n">>,
      Lex.FAIL \o <<" ", "a", "\n">>,
      <<"o", "k", "\n">> }

\* the code of a close event is null when a signal ended the process
NullCode == -1

\* a promise that takes the last value it is resolved with
ResolveLast(t, by, result) ==
    [t EXCEPT !.settled = TRUE, !.by = by, !.result = result]

\* the promise of runTests takes the first value it is resolved with
Resolve(t, by, result) ==
    IF t.settled THEN t
    ELSE [t EXCEPT !.settled = TRUE, !.by = by, !.result = result]

\* lines 26-34, 44-52, 77-85 and 108-116: a result with passed false and
\* zero counts; a fixed message of the code is one character of the output
FailedResult(duration, output, errors) ==
    [passed |-> FALSE, totalTests |-> 0, passedTests |-> 0, failedTests |-> 0,
     duration |-> duration, output |-> output, errors |-> errors]

\* a close handler that lets the parsed counts decide
CloseResultByCounts(code, output) ==
    LET testStats == ParseJestOutput(output)
    IN [passed |-> code = 0 /\ testStats.failed = 0,
        totalTests |-> testStats.total,
        passedTests |-> testStats.passed,
        failedTests |-> testStats.failed,
        duration |-> "elapsed",
        output |-> output,
        errors |-> IF code # 0 THEN ExtractErrors(output) ELSE <<>>]

\* lines 90-104: the result the close handler resolves with
CloseResult(code, output) ==
    LET testStats == ParseJestOutput(output)
    IN [passed |-> code = 0,
        totalTests |-> testStats.total,
        passedTests |-> testStats.passed,
        failedTests |-> testStats.failed,
        duration |-> "elapsed",
        output |-> output,
        errors |-> IF code # 0 THEN ExtractErrors(output) ELSE <<>>]

\* --------------------------------------------- withRetry (gemini service)
MAX_RETRIES == 5

INITIAL_DELAY_MS == 2000

\* what a call of the wrapped operation can reject with; status 0 stands
\* for an error without status
GeminiErrors ==
    { [status |-> 429, message |-> <<"x">>],
      [status |-> 0, message |-> <<"[", "4", "2", "9", "]">>],
      [status |-> 0, message |-> <<"q", "u", "o", "t", "a", "!">>],
      [status |-> 500, message |-> <<"x">>],
      [status |-> 0, message |-> <<"4", "2", "q", "u", "o", "t">>] }

\* a test that takes every error for a rate limit
IsRateLimitAlways(e) == TRUE

\* line 258: the test for a rate-limit error
IsRateLimit(e) ==
    \/ e.status = 429
    \/ Includes(e.message, <<"4", "2", "9">>)
    \/ Includes(e.message, <<"q", "u", "o", "t", "a">>)

\* line 259: INITIAL_DELAY_MS * Math.pow(2, attempt)
RECURSIVE DelayMs(_)
DelayMs(attempt) ==
    IF attempt = 0 THEN INITIAL_DELAY_MS ELSE 2 * DelayMs(attempt - 1)

\* ------------------------------------------ checkRateLimit (types/index.ts)
RATE_LIMIT_WINDOW == 60000

MAX_ATTEMPTS == 5

IpAddresses == {"ip1", "ip2"}

\* rateLimitStore.get(ip) of an ip that has no entry
NoEntry == [count |-> 0, firstAttempt |-> -1]

\* a limiter whose rejected calls restart the window
CheckRateLimitSliding(entries, ip, now) ==
    LET entry == entries[ip]
    IN IF entry = NoEntry \/ now - entry.firstAttempt > RATE_LIMIT_WINDOW
       THEN [ok |-> TRUE,
             entries |-> [entries EXCEPT ![ip] = [count |-> 1, firstAttempt |-> now]]]
       ELSE IF entry.count >= MAX_ATTEMPTS
       THEN [ok |-> FALSE, entries |-> [entries EXCEPT ![ip].firstAttempt = now]]
       ELSE [ok |-> TRUE, entries |-> [entries EXCEPT ![ip].count = @ + 1]]

\* a limiter that admits while count <= MAX_ATTEMPTS
CheckRateLimitOffByOne(entries, ip, now) ==
    LET entry == entries[ip]
    IN IF entry = NoEntry \/ now - entry.firstAttempt > RATE_LIMIT_WINDOW
       THEN [ok |-> TRUE,
             entries |-> [entries EXCEPT ![ip] = [count |-> 1, firstAttempt |-> now]]]
       ELSE IF entry.count > MAX_ATTEMPTS
       THEN [ok |-> FALSE, entries |-> entries]
       ELSE [ok |-> TRUE, entries |-> [entries EXCEPT ![ip].count = @ + 1]]

\* checkRateLimit, lines 185-208: the returned value and the store after it
CheckRateLimit(entries, ip, now) ==
    LET entry == entries[ip]
    IN IF entry = NoEntry
       THEN [ok |-> TRUE,
             entries |-> [entries EXCEPT ![ip] = [count |-> 1, firstAttempt |-> now]]]
       ELSE IF now - entry.firstAttempt > RATE_LIMIT_WINDOW
       THEN [ok |-> TRUE,
             entries |-> [entries EXCEPT ![ip] = [count |-> 1, firstAttempt |-> now]]]
       ELSE IF entry.count >= MAX_ATTEMPTS
       THEN [ok |-> FALSE, entries |-> entries]
       ELSE [ok |-> TRUE, entries |-> [entries EXCEPT ![ip].count = @ + 1]]


\* --------------------------------------------------- components not started
\* no applyPatchToFile call in progress
NoFile == [pc |-> "none"]

\* no applyPatches call in progress
NoApply == [pc |-> "none"]

\* the orchestrator before startTask
NoTask ==
    /\ pc = "idle"
    /\ outcome = "running"
    /\ task = [status |-> "none", currentIteration |-> 0, maxIterations |-> 0]
    /\ statusLog = <<>>
    /\ events = <<>>
    /\ iteration = 0
    /\ lastTestResult = Null
    /\ lastPatches = Null
    /\ allPatches = <<>>
    /\ allTestResults = <<>>
    /\ requests = <<>>
    /\ responses = <<>>
    /\ calls = <<>>
    /\ applyLog = <<>>

\* a component that has not been called
NotCalled == [pc |-> "none"]

\* every component except c is in the state it is constructed in
IdleBut(c) ==
    /\ IF c = "store" THEN TRUE ELSE store = NoStore
    /\ IF c = "pf" THEN TRUE ELSE pf = NoFile
    /\ IF c = "ap" THEN TRUE ELSE ap = NoApply
    /\ IF c = "tr" THEN TRUE ELSE tr = NotCalled
    /\ IF c = "fn" THEN TRUE ELSE fn = NotCalled
    /\ IF c = "rt" THEN TRUE ELSE rt = NotCalled
    /\ IF c = "rl" THEN TRUE ELSE rl = NotCalled
    /\ IF c = "cancel" THEN TRUE ELSE cancel = 0
    /\ IF c = "disk" THEN TRUE ELSE disk = NotCalled
    /\ IF c = "wss" THEN TRUE ELSE wss = NotCalled
    /\ IF c = "users" THEN TRUE ELSE users = NotCalled

\* a step of component c leaves every other component as it is
FrameBut(c) ==
    /\ IF c = "store" THEN TRUE ELSE UNCHANGED store
    /\ IF c = "pf" THEN TRUE ELSE UNCHANGED pf
    /\ IF c = "ap" THEN TRUE ELSE UNCHANGED ap
    /\ IF c = "tr" THEN TRUE ELSE UNCHANGED tr
    /\ IF c = "fn" THEN TRUE ELSE UNCHANGED fn
    /\ IF c = "rt" THEN TRUE ELSE UNCHANGED rt
    /\ IF c = "rl" THEN TRUE ELSE UNCHANGED rl
    /\ IF c = "cancel" THEN TRUE ELSE UNCHANGED cancel
    /\ IF c = "disk" THEN TRUE ELSE UNCHANGED disk
    /\ IF c = "wss" THEN TRUE ELSE UNCHANGED wss
    /\ IF c = "users" THEN TRUE ELSE UNCHANGED users

Init ==
    /\ NoTask
    /\ IdleBut("none")


\* ----------------------------------------------------------------- actions

\* orchestrator.ts lines 180-188: the code after the loop, up to the await
\* of gemini.generateReport
PostLoop(evs, ws, cs, it) ==
    Continue(evs, ws, cs \o <<[op |-> "report", iter |-> it]>>, "report")

\* orchestrator.ts lines 62-108: from the loop test to the await of
\* gemini.runAgentIteration.  ltr and lp are lastTestResult and lastPatches
\* as the segment left them.
EnterLoop(evs, ws, cs, ltr, lp) ==
    IF LoopContinues(iteration, task.maxIterations)
    THEN LET it == iteration + 1
             evs1 == evs \o <<Ev("iteration", ToString(it))>>
             ws1 == ws \o <<<<IterationStatus(it), it>>>>
             evs2 == evs1 \o <<Ev("status", IF it = 1
                                            THEN "Planning implementation..."
                                            ELSE "Generating fix...")>>
             ws2 == ws1 \o <<<<AgentStatus(it), it>>>>
         IN /\ iteration' = it
            /\ \/ \* git.summarizeRepo throws (line 68)
                  /\ Catch(evs1, ws1, cs, it, "summarizeRepo failed")
                  /\ requests' = requests
               \/ IF it # 1 /\ MissingPrevious(ltr, lp)
                  THEN /\ Catch(evs2, ws2, cs, it,
                                "No previous test result or patches to analyze")
                       /\ requests' = requests
                  ELSE /\ Continue(evs2, ws2,
                                   cs \o <<[op |-> "gen", iter |-> it]>>,
                                   "agent")
                       /\ requests' = Append(requests, AgentRequest(it, ltr, lp))
    ELSE /\ iteration' = iteration
         /\ requests' = requests
         /\ PostLoop(evs, ws, cs, iteration)

\* startTask (lines 228-243) and runTask up to the await of
\* git.createSnapshot (lines 40-55)
StartTask ==
    /\ UNCHANGED others
    /\ pc = "idle"
    /\ \E mi \in 0..MaxIter :
          task' = [status |-> "planning", currentIteration |-> 0,
                   maxIterations |-> mi]
    /\ statusLog' = <<<<"pending", 0>>, <<"planning", 0>>>>
    /\ events' = <<Ev("created", "Task created"),
                   Ev("status", "Creating repository snapshot...")>>
    /\ calls' = <<[op |-> "snapshot", iter |-> 0]>>
    /\ pc' = "snapshot"
    /\ UNCHANGED <<outcome, iteration, lastTestResult, lastPatches, allPatches,
                   allTestResults, requests, responses, applyLog>>

\* createSnapshot settles; lines 57-60
SnapshotDone ==
    /\ UNCHANGED others
    /\ pc = "snapshot"
    /\ \/ Catch(<<>>, <<>>, <<>>, iteration, "createSnapshot failed")
       \/ Continue(<<Ev("status", "Repository snapshot created")>>, <<>>,
                   <<[op |-> "branch", iter |-> 0]>>, "branch")
    /\ UNCHANGED <<iteration, lastTestResult, lastPatches, allPatches,
                   allTestResults, requests, responses, applyLog>>

\* createBranch settles; the loop is entered
BranchDone ==
    /\ UNCHANGED others
    /\ pc = "branch"
    /\ \/ /\ Catch(<<>>, <<>>, <<>>, iteration, "createBranch failed")
          /\ UNCHANGED <<iteration, requests>>
       \/ EnterLoop(<<>>, <<>>, <<>>, lastTestResult, lastPatches)
    /\ UNCHANGED <<lastTestResult, lastPatches, allPatches, allTestResults,
                   responses, applyLog>>

\* runAgentIteration settles; lines 83-94 or 110-112, then lines 115-144 up
\* to the await of commitChanges or, without patches, of runTests
AgentDone ==
    /\ UNCHANGED others
    /\ pc = "agent"
    /\ \/ /\ Catch(<<>>, <<>>, <<>>, iteration, "generator unavailable")
          /\ UNCHANGED <<responses, applyLog, allPatches, lastPatches>>
       \/ \E ps \in ChangeSets :
            LET resp == AgentResponse(Last(requests), ps)
                evsA == AgentEvents(iteration, resp)
            IN /\ responses' = Append(responses, resp)
               /\ IF ShouldApply(resp.patches)
                  THEN \E bad \in [1..Len(ps) -> BOOLEAN] :
                         LET evs == evsA \o <<Ev("status", "Applying patches..."),
                                              Ev("patches", "Applied patches")>>
                             ws == <<<<"generating", iteration>>>>
                             cs == <<[op |-> "apply", iter |-> iteration]>>
                         IN /\ applyLog' = Append(applyLog,
                                   [iter |-> iteration,
                                    result |-> ApplyPatches(ps, bad)])
                            /\ allPatches' = Append(allPatches, PatchesResponse(ps))
                            /\ lastPatches' = PatchesResponse(ps)
                            /\ IF PatchResultAborts(ApplyPatches(ps, bad))
                               THEN Catch(evs, ws, cs, iteration, "applyPatches failed")
                               ELSE \/ Catch(evs, ws, cs, iteration, "saveDiff failed")
                                    \/ Continue(evs, ws,
                                         cs \o <<[op |-> "commit", iter |-> iteration]>>,
                                         "commit")
                  ELSE /\ UNCHANGED <<applyLog, allPatches, lastPatches>>
                       /\ Continue(evsA \o <<Ev("status", "Running tests...")>>,
                                   <<<<"testing", iteration>>>>,
                                   <<[op |-> "verify", iter |-> iteration]>>,
                                   "tests")
    /\ UNCHANGED <<iteration, requests, lastTestResult, allTestResults>>

\* commitChanges settles; lines 140-144
CommitDone ==
    /\ UNCHANGED others
    /\ pc = "commit"
    /\ \/ Catch(<<>>, <<>>, <<>>, iteration, "commitChanges failed")
       \/ Continue(<<Ev("status", "Running tests...")>>,
                   <<<<"testing", iteration>>>>,
                   <<[op |-> "verify", iter |-> iteration]>>, "tests")
    /\ UNCHANGED <<iteration, lastTestResult, lastPatches, allPatches,
                   allTestResults, requests, responses, applyLog>>

\* runTests resolves (it never rejects); lines 145-178, then either the next
\* pass through the loop head or the code after the loop
TestsDone ==
    /\ UNCHANGED others
    /\ pc = "tests"
    /\ \E res \in TestResults :
          /\ lastTestResult' = res
          /\ allTestResults' = Append(allTestResults,
                                 [passed |-> res.passed, output |-> res.output])
          /\ \/ \* artifacts.saveTestResult throws (line 149)
                /\ Catch(<<>>, <<>>, <<>>, iteration, "saveTestResult failed")
                /\ UNCHANGED <<iteration, requests>>
             \/ IF BreakOnPass(res)
                THEN /\ PostLoop(TestEvents(res), <<>>, <<>>, iteration)
                     /\ UNCHANGED <<iteration, requests>>
                ELSE EnterLoop(TestEvents(res), <<>>, <<>>, res, lastPatches)
    /\ UNCHANGED <<lastPatches, allPatches, responses, applyLog>>

\* generateReport settles; lines 190-193 up to the await of git.getDiff
ReportDone ==
    /\ UNCHANGED others
    /\ pc = "report"
    /\ \/ Catch(<<>>, <<>>, <<>>, iteration, "generateReport failed")
       \/ Catch(<<>>, <<>>, <<>>, iteration, "saveReport failed")
       \/ Continue(<<>>, <<>>, <<[op |-> "getDiff", iter |-> iteration]>>, "diff")
    /\ UNCHANGED <<iteration, lastTestResult, lastPatches, allPatches,
                   allTestResults, requests, responses, applyLog>>

\* getDiff settles (a rejection is turned into ''); lines 194-206
DiffDone ==
    /\ UNCHANGED others
    /\ pc = "diff"
    /\ \E finalDiff \in {"", "d"} :
          \/ /\ finalDiff # ""
             /\ Catch(<<>>, <<>>, <<>>, iteration, "saveLog failed")
          \/ /\ events' = events \o NormalExitEvents(lastTestResult)
             /\ statusLog' = statusLog \o NormalExitWrites(lastTestResult, iteration)
             /\ task' = StatusAfter(task, NormalExitWrites(lastTestResult, iteration))
             /\ calls' = calls
             /\ pc' = "done"
             /\ outcome' = "normal"
    /\ UNCHANGED <<iteration, lastTestResult, lastPatches, allPatches,
                   allTestResults, requests, responses, applyLog>>

Next ==
    \/ StartTask
    \/ SnapshotDone
    \/ BranchDone
    \/ AgentDone
    \/ CommitDone
    \/ TestsDone
    \/ ReportDone
    \/ DiffDone

Spec == Init /\ [][Next]_allVars

\* ------------------------------------------------ actions of the event store
\* a millisecond passes
ClockTick ==
    /\ store.clock < MaxClock
    /\ store' = [store EXCEPT !.clock = @ + 1]
    /\ UNCHANGED vars /\ FrameBut("store")

\* emitEvent (orchestrator.ts 32-35) -> createTaskEvent (database 238-255)
EmitEvent ==
    /\ Len(store.rows) < MaxEvents
    /\ \E taskId \in TaskIds :
          store' = [store EXCEPT !.rows =
                       Append(@, TaskEventRow(taskId, Len(@) + 1, store.clock))]
    /\ UNCHANGED vars /\ FrameBut("store")

\* getTaskEvents (database 257-269)
ReadEvents ==
    /\ \E taskId \in TaskIds :
          \E p \in GetTaskEvents(taskId, store.rows) :
             store' = [store EXCEPT !.read =
                          [taskId |-> taskId,
                           emitted |-> RowsOf(taskId, store.rows),
                           returned |-> p]]
    /\ UNCHANGED vars /\ FrameBut("store")

NextStore ==
    \/ ClockTick
    \/ EmitEvent
    \/ ReadEvents

SpecStore == Init /\ [][NextStore]_allVars

\* ------------------------------------------------- actions of applyPatches
InitApply ==
    /\ NoTask
    /\ IdleBut("ap")
    /\ ap \in {ApplyStart(ps) : ps \in PatchLists}

\* one entry of the ChangeSet: applyPatchToFile returns or throws
ApplyEntry ==
    /\ ap.pc = "loop"
    /\ ap.i <= Len(ap.patches)
    /\ \E threw \in BOOLEAN : ap' = AfterEntry(ap, threw)
    /\ UNCHANGED vars /\ FrameBut("ap")

\* return { applied, failed } (line 159)
ApplyReturn ==
    /\ ap.pc = "loop"
    /\ ap.i > Len(ap.patches)
    /\ ap' = [ap EXCEPT !.pc = "returned"]
    /\ UNCHANGED vars /\ FrameBut("ap")

NextApply ==
    \/ ApplyEntry
    \/ ApplyReturn

SpecApply == InitApply /\ [][NextApply]_allVars

\* --------------------------------------------- actions of applyPatchToFile
InitFile ==
    /\ NoTask
    /\ IdleBut("pf")
    /\ pf \in {FileStart(f, d) : f \in Files, d \in ChangeTexts}

\* lines 37-49: mkdirSync and readFileSync are outside the try
FileOpen ==
    /\ pf.pc = "start"
    /\ \E throws \in BOOLEAN :
          pf' = IF throws
                THEN [pf EXCEPT !.pc = "threw", !.faults = Append(@, "open")]
                ELSE [pf EXCEPT !.pc = "try",
                                !.orig = IF pf.exists THEN pf.content ELSE EmptyText]
    /\ UNCHANGED vars /\ FrameBut("pf")

\* lines 51-54: the try block holds applyUnifiedDiff and the write
FileTry ==
    /\ pf.pc = "try"
    /\ LET r == ApplyUnifiedDiff(pf.orig, pf.diff)
       IN IF ~r.ok
          THEN pf' = [pf EXCEPT !.pc = AfterDiffFailure, !.cause = "diff"]
          ELSE \E throws \in BOOLEAN :
                  pf' = IF throws
                        THEN [pf EXCEPT !.pc = "catch", !.cause = "io",
                                        !.faults = Append(@, "write")]
                        ELSE Written(pf, "diff", r.text)
    /\ UNCHANGED vars /\ FrameBut("pf")

\* lines 55-60: the catch block
FileCatch ==
    /\ pf.pc = "catch"
    /\ \E throws \in BOOLEAN :
          pf' = IF throws
                THEN [pf EXCEPT !.pc = "threw", !.faults = Append(@, "write")]
                ELSE Written(pf, "fallback", ExtractNewContent(pf.diff, pf.orig))
    /\ UNCHANGED vars /\ FrameBut("pf")

NextFile ==
    \/ FileOpen
    \/ FileTry
    \/ FileCatch

SpecFile == InitFile /\ [][NextFile]_allVars

\* ------------------------------------------------------ actions of runTests
\* runTests called, line 20
InitTests ==
    /\ NoTask
    /\ IdleBut("tr")
    /\ tr = [pc |-> "called", proc |-> "none", timer |-> "none", stdout |-> <<>>,
             stderr |-> <<>>, chunks |-> 0, settled |-> FALSE, by |-> "none",
             code |-> NullCode, result |-> Null, fired |-> <<>>]

\* lines 57-62: spawn('npm', ['test']) and setTimeout
Spawned(t) == [t EXCEPT !.pc = "spawned", !.proc = "running", !.timer = "armed"]

\* lines 21-41: the checks for package.json and node_modules
RunTests ==
    /\ tr.pc = "called"
    /\ \E hasPackage \in BOOLEAN, hasModules \in BOOLEAN :
          tr' = IF ~hasPackage
                THEN [Resolve(tr, "package",
                              FailedResult("0", <<"No package.json found">>,
                                  <<<<"No package.json found in repository">>>>))
                         EXCEPT !.pc = "returned"]
                ELSE IF ~hasModules
                THEN [tr EXCEPT !.pc = "install"]
                ELSE Spawned(tr)
    /\ UNCHANGED vars /\ FrameBut("tr")

\* lines 40-53: npm install returns or throws
InstallDone ==
    /\ tr.pc = "install"
    /\ \E throws \in BOOLEAN :
          tr' = IF throws
                THEN [Resolve(tr, "install",
                              FailedResult("elapsed",
                                  <<"Failed to install dependencies: ", "error">>,
                                  <<<<"npm install failed: ", "error">>>>))
                         EXCEPT !.pc = "returned"]
                ELSE Spawned(tr)
    /\ UNCHANGED vars /\ FrameBut("tr")

\* lines 67-73: a data event of stdout or stderr
ProcessData ==
    /\ tr.proc \in {"running", "killed"}
    /\ tr.chunks < MaxChunks
    /\ \E chunk \in Chunks, stream \in {"stdout", "stderr"} :
          tr' = IF stream = "stdout"
                THEN [tr EXCEPT !.stdout = @ \o chunk, !.chunks = @ + 1]
                ELSE [tr EXCEPT !.stderr = @ \o chunk, !.chunks = @ + 1]
    /\ UNCHANGED vars /\ FrameBut("tr")

\* lines 75-86: TEST_TIMEOUT expires; kill() signals the process, which may
\* have exited already
TestTimeout ==
    /\ tr.timer = "armed"
    /\ tr' = [Resolve([tr EXCEPT !.fired = Append(@, <<"timeout", NullCode>>)], "timeout",
                      FailedResult("TEST_TIMEOUT",
                          tr.stdout \o tr.stderr
                          \o <<"\n", "\n", "Test process timed out">>,
                          <<<<"Test process timed out">>>>))
                 EXCEPT !.timer = "fired",
                        !.proc = IF tr.proc = "running" THEN "killed" ELSE tr.proc]
    /\ UNCHANGED vars /\ FrameBut("tr")

\* lines 88-105: the process closes with an exit code, or with null when
\* a signal ended it; a process that could not be spawned closes with a
\* non-zero code
ProcessClose ==
    /\ tr.proc \in {"running", "killed", "failed"}
    /\ \E code \in {0, 1, NullCode} :
          /\ code = NullCode => tr.proc = "killed"
          /\ tr.proc = "failed" => code = 1
          /\ tr' = [Resolve([tr EXCEPT !.code = IF tr.settled THEN @ ELSE code,
                                       !.fired = Append(@, <<"close", code>>)],
                            "close",
                            CloseResult(code, tr.stdout \o tr.stderr))
                       EXCEPT !.proc = "closed",
                              !.timer = IF @ = "armed" THEN "cleared" ELSE @]
    /\ UNCHANGED vars /\ FrameBut("tr")

\* lines 107-118: the process could not be spawned; its close event may
\* follow
ProcessError ==
    /\ tr.proc = "running"
    /\ tr.stdout = <<>> /\ tr.stderr = <<>>
    /\ tr' = [Resolve([tr EXCEPT !.fired = Append(@, <<"error", NullCode>>)], "error",
                      FailedResult("elapsed", <<"Process error: ", "error">>,
                                   <<<<"error">>>>))
                 EXCEPT !.proc = "failed",
                        !.timer = IF @ = "armed" THEN "cleared" ELSE @]
    /\ UNCHANGED vars /\ FrameBut("tr")

NextTests ==
    \/ RunTests
    \/ InstallDone
    \/ ProcessData
    \/ TestTimeout
    \/ ProcessClose
    \/ ProcessError

SpecTests == InitTests /\ [][NextTests]_allVars

\* ------------------------- actions of parseJestOutput and extractErrors
\* one of the two functions is called on a transcript made of lines
InitFn ==
    /\ NoTask
    /\ IdleBut("fn")
    /\ fn \in {[pc |-> "called", name |-> "parseJestOutput", lines |-> phs,
                result |-> Null,
                output |-> JoinChars([i \in DOMAIN phs |-> PhraseText(phs[i])])] :
                 phs \in UNION {[1..n -> JestPhrases] : n \in 0..MaxPhrases}}
              \cup
              {[pc |-> "called", name |-> "extractErrors", lines |-> ls,
                result |-> Null,
                output |-> JoinChars(ls)] :
                 ls \in UNION {[1..n -> TranscriptLines] : n \in 0..MaxLines}}

\* testRunner.ts lines 125-154 and 159-191: the function returns
FnReturns ==
    /\ fn.pc = "called"
    /\ fn' = [fn EXCEPT !.pc = "done",
                        !.result = IF fn.name = "parseJestOutput"
                                   THEN ParseJestOutput(fn.output)
                                   ELSE ExtractErrors(fn.output)]
    /\ UNCHANGED vars /\ FrameBut("fn")

SpecFn == InitFn /\ [][FnReturns]_allVars

\* ----------------------------------------------------- actions of withRetry
\* lines 250-254: withRetry called; the operation is awaited for attempt 0
InitRetry ==
    /\ NoTask
    /\ IdleBut("rt")
    /\ rt = [pc |-> "operation", attempt |-> 0, errors |-> <<>>, delays |-> <<>>,
             thrown |-> Null]

\* lines 253-267: the awaited operation settles
OperationSettles ==
    /\ rt.pc = "operation"
    /\ \/ rt' = [rt EXCEPT !.pc = "returned"]
       \/ \E e \in GeminiErrors :
             rt' = IF IsRateLimit(e)
                   THEN [rt EXCEPT !.pc = "sleep",
                                   !.errors = Append(@, e),
                                   !.delays = Append(@, DelayMs(rt.attempt))]
                   ELSE [rt EXCEPT !.pc = "threw",
                                   !.errors = Append(@, e),
                                   !.thrown = e]
    /\ UNCHANGED vars /\ FrameBut("rt")

\* lines 261-262, 252 and 270: the sleep ends, the loop goes on or ends
SleepDone ==
    /\ rt.pc = "sleep"
    /\ rt' = IF rt.attempt + 1 < MAX_RETRIES
             THEN [rt EXCEPT !.pc = "operation", !.attempt = @ + 1]
             ELSE [rt EXCEPT !.pc = "threw", !.attempt = @ + 1,
                             !.thrown = Last(rt.errors)]
    /\ UNCHANGED vars /\ FrameBut("rt")

NextRetry ==
    \/ OperationSettles
    \/ SleepDone

\* every awaited promise settles: the operation's and the timer's
SpecRetry == InitRetry /\ [][NextRetry]_allVars /\ WF_allVars(NextRetry)

\* ------------------------------------------------ actions of checkRateLimit
\* the module as loaded: an empty rateLimitStore, the clock at 0
InitLimits ==
    /\ NoTask
    /\ IdleBut("rl")
    /\ rl = [pc |-> "loaded", now |-> 0,
             entries |-> [ip \in IpAddresses |-> NoEntry], log |-> <<>>]

\* some time passes, then checkRateLimit(ip) is called
CheckRateLimitCall ==
    /\ rl.pc = "loaded"
    /\ Len(rl.log) < MaxCalls
    /\ \E ip \in IpAddresses, dt \in {0, 30000, 30001} :
          LET now == rl.now + dt
              r == CheckRateLimit(rl.entries, ip, now)
          IN /\ now <= MaxNow
             /\ rl' = [rl EXCEPT !.now = now,
                                 !.entries = r.entries,
                                 !.log = Append(@, [ip |-> ip, at |-> now,
                                                    ok |-> r.ok])]
    /\ UNCHANGED vars /\ FrameBut("rl")

SpecLimits == InitLimits /\ [][CheckRateLimitCall]_allVars

\* ------------------------------------------------- the cancellation signal
\* A cancellation is requested for the running task while runTask awaits the
\* verification of an iteration that is not the last one, so that the signal
\* is pending when the loop comes back to its head; cancel is the iteration
\* it was sent in, 0 when none was sent.  runTask takes no signal and
\* startTask hands out no handle: no step of the loop reads cancel.
CancelRequested ==
    /\ pc = "tests"
    /\ iteration < task.maxIterations
    /\ cancel = 0
    /\ cancel' = iteration
    /\ UNCHANGED vars /\ FrameBut("cancel")

NextCancel ==
    \/ Next
    \/ CancelRequested

SpecCancel == Init /\ [][NextCancel]_allVars


\* ------------------------ the work directory (git.ts, patcher.ts, path, fs)
\* A path is the sequence of its segments below process.cwd().

\* calls of applyPatchToFile on the work directory
MaxApplies == 3

\* git.ts lines 13 and 24-25: the snapshot paths of two tasks
Workspaces == {<<"workspaces", "s1">>, <<"workspaces", "s2">>}

\* path.join: the segments of rest appended to the path done, normalised;
\* '..' at the top stays at the top
RECURSIVE PathJoin(_, _)
PathJoin(done, rest) ==
    IF rest = <<>> THEN done
    ELSE IF Head(rest) = "." THEN PathJoin(done, Tail(rest))
    ELSE IF Head(rest) = ".."
    THEN PathJoin(SubSeq(done, 1, Len(done) - 1), Tail(rest))
    ELSE PathJoin(Append(done, Head(rest)), Tail(rest))

\* applyPatchToFile, lines 36-61, on the directories and files d: what it
\* creates and writes.  mkdirSync throws when a segment of dir is a file,
\* readFileSync and writeFileSync throw when filePath is a directory or dir
\* is not one; a throw leaves what was created before it.
ApplyPatchToFileOn(d, repoPath, file) ==
    LET filePath == PathJoin(repoPath, file)
        dir == SubSeq(filePath, 1, Len(filePath) - 1)
        above == {SubSeq(dir, 1, k) : k \in 0..Len(dir)}
        created == IF dir \in d.dirs \cup d.files \/ above \cap d.files # {}
                   THEN {} ELSE above \ d.dirs
        written == IF filePath \in d.dirs \cup created
                      \/ dir \notin d.dirs \cup created
                   THEN {} ELSE {filePath}
    IN [created |-> created, written |-> written]

\* ------------------------------------------- actions on the work directory
\* two snapshots have been created; the second holds a file
InitDisk ==
    /\ NoTask
    /\ IdleBut("disk")
    /\ disk = [pc |-> "ready",
               dirs |-> {<<>>, <<"workspaces">>} \cup Workspaces,
               files |-> {<<"workspaces", "s2", "a">>},
               log |-> <<>>]

\* the loop of a task applies an entry of a ChangeSet, patcher.ts line 150;
\* file is Patch.file as its segments, <<>> the empty string
ApplyPatchToFileCall ==
    /\ disk.pc = "ready"
    /\ Len(disk.log) < MaxApplies
    /\ \E repoPath \in Workspaces,
          file \in { <<"a">>, <<"d", "a">>, <<".", "a">>, <<"d", "..", "a">>, <<>>,
                     <<"..", "s2", "a">>, <<"..", "s1", "d", "a">>,
                     <<"..", "..", "etc", "a">> } :
          LET r == ApplyPatchToFileOn(disk, repoPath, file)
          IN disk' = [disk EXCEPT
                        !.dirs = @ \cup r.created,
                        !.files = @ \cup r.written,
                        !.log = Append(@, [repoPath |-> repoPath, file |-> file,
                                           created |-> r.created,
                                           written |-> r.written])]
    /\ UNCHANGED vars /\ FrameBut("disk")

SpecDisk == InitDisk /\ [][ApplyPatchToFileCall]_allVars

\* ------------------------------------------ the WebSocket server (index.ts)
\* task events forwarded to the WebSocket clients
MaxForwards == 2

\* the connections the server accepts
Clients == {"c1", "c2"}

\* the keys taskClients can get: the ids of the tasks and a value that is
\* the id of no task
SubscriptionKeys == TaskIds \cup {"no task"}

\* a subscribe handler that leaves the client in the set of its previous task
SubscribeKeepingPrevious(w, c, taskId) ==
    [w EXCEPT !.taskClients[taskId] = @ \cup {c},
              !.subscribedTaskId[c] = taskId]

\* lines 63-78: the client leaves the set of subscribedTaskId and joins the
\* set of taskId; a task without a set has the empty set
Subscribe(w, c, taskId) ==
    LET previous == w.subscribedTaskId[c]
        left == IF previous = "null" THEN w.taskClients
                ELSE [w.taskClients EXCEPT ![previous] = @ \ {c}]
    IN [w EXCEPT !.taskClients = [left EXCEPT ![taskId] = @ \cup {c}],
                 !.subscribedTaskId[c] = taskId]

\* --------------------------------------------- actions of the WebSocket server
\* the server listens: no connection, taskClients = new Map()
InitServer ==
    /\ NoTask
    /\ IdleBut("wss")
    /\ wss = [pc |-> "listening",
              readyState |-> [c \in Clients |-> "none"],
              subscribedTaskId |-> [c \in Clients |-> "null"],
              taskClients |-> [t \in SubscriptionKeys |-> {}],
              named |-> [c \in Clients |-> "null"],
              log |-> <<>>]

\* wss.on('connection'), lines 54-57
ClientConnects ==
    /\ wss.pc = "listening"
    /\ \E c \in Clients :
          /\ wss.readyState[c] = "none"
          /\ wss' = [wss EXCEPT !.readyState[c] = "open"]
    /\ UNCHANGED vars /\ FrameBut("wss")

\* ws.on('message'), lines 59-91: a client sends a subscribe message with a
\* task id or without one (taskId ''), a message of another type, or text
\* that is not JSON; named records the task id of the client's most recent
\* subscribe message that carries one
ClientMessage ==
    /\ wss.pc = "listening"
    /\ \E c \in Clients,
          m \in {[type |-> "subscribe", taskId |-> t] : t \in SubscriptionKeys \cup {""}}
               \cup {[type |-> "ping", taskId |-> "t1"],
                     [type |-> "not JSON", taskId |-> ""]} :
          /\ wss.readyState[c] \in {"open", "closing"}
          /\ wss' = IF m.type = "subscribe" /\ m.taskId # ""
                    THEN [Subscribe(wss, c, m.taskId) EXCEPT !.named[c] = m.taskId]
                    ELSE wss
    /\ UNCHANGED vars /\ FrameBut("wss")

\* the closing handshake of a connection starts (readyState CLOSING), or the
\* connection is closed and ws.on('close') runs, lines 93-103
ClientCloses ==
    /\ wss.pc = "listening"
    /\ \E c \in Clients :
          \/ /\ wss.readyState[c] = "open"
             /\ wss' = [wss EXCEPT !.readyState[c] = "closing"]
          \/ /\ wss.readyState[c] \in {"open", "closing"}
             /\ wss' = [wss EXCEPT
                          !.readyState[c] = "closed",
                          !.taskClients =
                              IF wss.subscribedTaskId[c] = "null" THEN @
                              ELSE [@ EXCEPT ![wss.subscribedTaskId[c]] = @ \ {c}]]
    /\ UNCHANGED vars /\ FrameBut("wss")

\* orchestratorEvents.on('task-event'), lines 111-123: the event of a task
\* is sent to the open clients of its set
TaskEventForwarded ==
    /\ wss.pc = "listening"
    /\ Len(wss.log) < MaxForwards
    /\ \E taskId \in TaskIds :
          wss' = [wss EXCEPT
                    !.log = Append(@, [taskId |-> taskId,
                                       to |-> {c \in wss.taskClients[taskId] :
                                                 wss.readyState[c] = "open"}])]
    /\ UNCHANGED vars /\ FrameBut("wss")

NextServer ==
    \/ ClientConnects
    \/ ClientMessage
    \/ ClientCloses
    \/ TaskEventForwarded

SpecServer == InitServer /\ [][NextServer]_allVars

\* ------------------------------------ the user store (demo_repo/src/user.ts)
\* the users handed to saveUser, with the fields the store reads: an id and
\* an email, a sequence of characters
UsersInput ==
    {[id |-> i, email |-> e] :
        i \in {"u1", "u2", "u3"}, e \in {<<"a">>, <<"A">>, <<"b">>, <<"B">>}}

\* String.prototype.toLowerCase on the letters of the emails
ToLowerCase(s) ==
    [i \in DOMAIN s |-> IF s[i] = "A" THEN "a" ELSE IF s[i] = "B" THEN "b" ELSE s[i]]

\* findUserByEmail, lines 43-47; Null is undefined
FindUserByEmail(st, email) ==
    LET id == st.emailIndex[ToLowerCase(email)]
    IN IF id = "undefined" THEN Null ELSE st.users[id]

\* emailExists, lines 52-54
EmailExists(st, email) == st.emailIndex[ToLowerCase(email)] # "undefined"

\* ------------------------------------------------ actions of the user store
\* userStore as the module creates it, lines 28-31: two empty Maps
InitUsers ==
    /\ NoTask
    /\ IdleBut("users")
    /\ users = [pc |-> "loaded",
                users |-> [i \in {u.id : u \in UsersInput} |-> Null],
                emailIndex |-> [e \in {u.email : u \in UsersInput} |-> "undefined"]]

\* saveUser, lines 59-62
SaveUser ==
    /\ users.pc = "loaded"
    /\ \E user \in UsersInput :
          users' = [users EXCEPT !.users[user.id] = user,
                                 !.emailIndex[ToLowerCase(user.email)] = user.id]
    /\ UNCHANGED vars /\ FrameBut("users")

\* clearUsers, lines 67-70
ClearUsers ==
    /\ users.pc = "loaded"
    /\ users' = [users EXCEPT !.users = [i \in DOMAIN @ |-> Null],
                              !.emailIndex = [e \in DOMAIN @ |-> "undefined"]]
    /\ UNCHANGED vars /\ FrameBut("users")

NextUsers ==
    \/ SaveUser
    \/ ClearUsers

SpecUsers == InitUsers /\ [][NextUsers]_allVars

\* ------------------------------------------------------- property helpers

MissingPreviousMsg == "No previous test result or patches to analyze"

\* number of calls of capability op made in iteration j
CallCount(op, j) ==
    Cardinality({i \in DOMAIN calls : calls[i].op = op /\ calls[i].iter = j})

\* a capability call threw (as opposed to runTask's own throw at line 100)
CapabilityFault ==
    \/ outcome = "rejected"
    \/ \E i \in DOMAIN events :
          events[i].type = "error" /\ events[i].msg # MissingPreviousMsg

\* iterations whose verification passed
PassedAt == {k \in DOMAIN allTestResults : allTestResults[k].passed}

EventTypes == [i \in DOMAIN events |-> events[i].type]

IsTerminalWrite(i) == statusLog[i][1] \in TerminalStatuses

\* the pairs of consecutive distinct statuses written so far
ObservedTransitions ==
    {<<statusLog[i][1], statusLog[i + 1][1]>> :
        i \in {j \in 1..(Len(statusLog) - 1) :
                 statusLog[j][1] # statusLog[j + 1][1]}}

\* ------------------------------------------------------------------ claims

\* the loop has seen a verification pass (line 170)
SuccessEmitted == \E i \in DOMAIN events : events[i].type = "success"

\* C1: if verification first passes on iteration k (and the loop has seen it
\* pass), the finished run has status completed and currentIteration = k,
\* and no generator call, patch application or verification call of an
\* iteration > k was made.
C1_StopsCompletedAtFirstPass ==
    (pc = "done" /\ PassedAt # {} /\ SuccessEmitted) =>
        \E k \in PassedAt :
            /\ \A j \in PassedAt : k <= j
            /\ task.status = "completed"
            /\ task.currentIteration = k
            /\ \A i \in DOMAIN calls :
                  calls[i].op \in {"gen", "apply", "verify"} => calls[i].iter <= k

\* C2: with maxIterations = N, no capability fault and every verification
\* failing, the finished run made exactly N verification calls, went through
\* the normal exit and left status failed with currentIteration = N.
C2_ExhaustsBudgetNormally ==
    (pc = "done" /\ ~CapabilityFault /\ PassedAt = {}) =>
        /\ outcome = "normal"
        /\ task.status = "failed"
        /\ task.currentIteration = task.maxIterations
        /\ Len(allTestResults) = task.maxIterations
        /\ \A j \in 1..task.maxIterations : CallCount("verify", j) = 1

\* C3: a task whose status is completed has a most recent verification
\* result that passed, and completed is only ever the latest status write.
C3_CompletedOnlyAfterPass ==
    /\ task.status = "completed" =>
          /\ lastTestResult # Null
          /\ lastTestResult.passed
          /\ Last(allTestResults).passed
    /\ \A i \in DOMAIN statusLog :
          statusLog[i][1] = "completed" =>
              /\ i = Len(statusLog)
              /\ lastTestResult # Null
              /\ lastTestResult.passed

C3_Witness == task.status = "completed" /\ task.currentIteration = 2

\* C4: a terminal status is written at most once, nothing is written to the
\* status or the iteration count after it, and a run that has ended has
\* written one.
C4_TerminalWrittenOnce ==
    /\ \A i \in DOMAIN statusLog : IsTerminalWrite(i) => i = Len(statusLog)
    /\ pc = "done" <=> (statusLog # <<>> /\ IsTerminalWrite(Len(statusLog)))
    /\ pc = "done" =>
          /\ task.status = Last(statusLog)[1]
          /\ task.currentIteration = Last(statusLog)[2]

C4_Witness ==
    /\ pc = "done"
    /\ outcome = "rejected"
    /\ IsTerminalWrite(Len(statusLog))
    /\ PassedAt # {}

\* the transitions of the specified state machine
SpecTransitions ==
    {<<"pending", "planning">>, <<"planning", "generating">>,
     <<"generating", "testing">>, <<"testing", "completed">>,
     <<"testing", "analyzing">>, <<"analyzing", "fixing">>,
     <<"fixing", "testing">>}
    \cup {<<s, "failed">> :
            s \in {"planning", "generating", "testing", "analyzing", "fixing"}}

\* C5 as stated: every pair of consecutive distinct statuses is a transition
\* of the specified state machine.
C5_OnlySpecTransitions == ObservedTransitions \subseteq SpecTransitions

\* the transitions runTask makes
CodeTransitions ==
    {<<"pending", "planning">>, <<"planning", "generating">>,
     <<"planning", "testing">>, <<"generating", "testing">>,
     <<"testing", "completed">>, <<"testing", "fixing">>,
     <<"fixing", "analyzing">>, <<"analyzing", "generating">>,
     <<"analyzing", "testing">>}
    \cup {<<s, "failed">> :
            s \in {"planning", "generating", "testing", "analyzing", "fixing"}}

\* C5 amended: every pair of consecutive distinct statuses is one of
\* pending->planning, planning->generating, planning->testing,
\* generating->testing, testing->completed, testing->fixing,
\* fixing->analyzing, analyzing->generating, analyzing->testing or
\* (planning|generating|testing|analyzing|fixing)->failed.
C5_OnlyCodeTransitions == ObservedTransitions \subseteq CodeTransitions

C5_Witness ==
    /\ <<"testing", "fixing">> \in ObservedTransitions
    /\ <<"fixing", "analyzing">> \in ObservedTransitions
    /\ <<"analyzing", "generating">> \in ObservedTransitions
    /\ <<"testing", "completed">> \in ObservedTransitions

\* iteration j has run to its end: a later iteration has started or the
\* code after the loop has been reached
IterationEnded(j) ==
    \/ j < iteration
    \/ j = iteration /\ (pc \in {"report", "diff"} \/ outcome = "normal")

\* the generator, applier, commit and verification calls of iteration j,
\* in the order they were made
IterationOps(j) ==
    LET ofIteration(c) ==
            c.iter = j /\ c.op \in {"gen", "apply", "commit", "verify"}
        cs == SelectSeq(calls, ofIteration)
    IN [i \in DOMAIN cs |-> cs[i].op]

C7_RequestCarriesPreviousAttempt ==
    \A i \in DOMAIN requests :
        i >= 2 =>
            /\ requests[i].iter = i
            /\ requests[i].output = allTestResults[i - 1].output
            /\ requests[i].patches = PatchesResponse(responses[i - 1].patches)

GeneratorFaultMsg == "generator unavailable"

\* C8: once a generator call has failed, the error event it caused is the
\* last event, the failed call is the last capability call, the run is over,
\* and the task is failed with currentIteration equal to that iteration.
C8_GeneratorFaultIsTerminal ==
    \A i \in DOMAIN events :
        events[i] = Ev("error", GeneratorFaultMsg) =>
            /\ i = Len(events)
            /\ pc = "done"
            /\ Last(calls).op = "gen"
            /\ Last(calls).iter = iteration
            /\ Len(responses) = iteration - 1
            /\ task.status = "failed"
            /\ task.currentIteration = iteration
            /\ Last(statusLog) = <<"failed", iteration>>

C8_Witness ==
    /\ pc = "done"
    /\ Last(calls).op = "gen"
    /\ iteration = 2
    /\ task.maxIterations = 3
    /\ Ev("error", GeneratorFaultMsg) = Last(events)

\* C9: a run that has ended left a terminal status and its last event is a
\* complete event (normal exit) or an error event carrying a message (catch
\* block); a run that has not ended has no terminal status.
C9_EndsTerminalWithExplanation ==
    /\ pc = "done" =>
          /\ task.status \in TerminalStatuses
          /\ events # <<>>
          /\ Last(events).type \in {"complete", "error"}
          /\ Last(events).type = "complete" <=> outcome = "normal"
          /\ Last(events).type = "complete" => Last(events).msg = task.status
          /\ Last(events).type = "error" =>
                Last(events).msg # "" /\ task.status = "failed"
    /\ pc # "done" => task.status \notin TerminalStatuses

C9_Witness ==
    /\ pc = "done"
    /\ outcome = "error"
    /\ Last(events) = Ev("error", MissingPreviousMsg)

\* the scenario of C10: maxIterations = 3, a non-empty ChangeSet in every
\* iteration, verification failing on iterations 1 and 2 and passing on 3
C10_Scenario ==
    /\ pc = "done"
    /\ task.maxIterations = 3
    /\ Len(responses) = 3
    /\ \A j \in 1..3 : responses[j].patches # <<>>
    /\ Len(allTestResults) = 3
    /\ ~allTestResults[1].passed
    /\ ~allTestResults[2].passed
    /\ allTestResults[3].passed

IsNotErrorsEvent(e) == e.type # "errors"

\* number of extracted errors of the failed result with transcript o
ErrorsOfFailure(o) ==
    (CHOOSE r \in TestResults : ~r.passed /\ r.output = o).nerrors

TypesOf(evs) == [i \in DOMAIN evs |-> evs[i].type]

C11_ReadReturnsEmissionOrder == store.read.returned = store.read.emitted

\* what the query does guarantee: the same rows, ordered by timestamp
C11_ReadIsTimestampOrdered ==
    /\ OrderedByTimestamp(store.read.returned)
    /\ Len(store.read.returned) = Len(store.read.emitted)
    /\ \A i \in DOMAIN store.read.emitted :
          \E j \in DOMAIN store.read.returned :
             store.read.returned[j] = store.read.emitted[i]

\* ------------------------------------------------------------------- C12
Range(s) == {s[k] : k \in DOMAIN s}

\* C12: applyPatches attempts every entry of the ChangeSet in order even
\* after an earlier entry failed, and puts each entry's path in exactly one
\* of applied / failed: in applied when its apply returned, in failed when
\* it threw, and |applied| + |failed| is the number of entries.
C12_EveryEntryAttemptedAndFiled ==
    /\ ap.pc \in {"loop", "returned"} =>
          /\ Len(ap.threw) = ap.i - 1
          /\ Len(ap.applied) + Len(ap.failed) = Len(ap.threw)
          /\ [applied |-> ap.applied, failed |-> ap.failed]
                = ApplyPatches(SubSeq(ap.patches, 1, ap.i - 1), ap.threw)
    /\ ap.pc = "returned" =>
          /\ Len(ap.threw) = Len(ap.patches)
          /\ Len(ap.applied) + Len(ap.failed) = Len(ap.patches)
          /\ \A k \in DOMAIN ap.patches :
                /\ ~ap.threw[k] => ap.patches[k] \in Range(ap.applied)
                /\ ap.threw[k] => ap.patches[k] \in Range(ap.failed)

C12_Witness ==
    /\ ap.pc = "returned"
    /\ Len(ap.patches) = 3
    /\ ap.threw = <<TRUE, FALSE, TRUE>>
    /\ ap.applied = <<ap.patches[2]>>

\* ------------------------------------------------------------------- C13
\* the message of the error event that ended the run ("" if there is none)
EndingError ==
    IF events # <<>> /\ Last(events).type = "error" THEN Last(events).msg ELSE ""

VerifyCalled(j) == \E i \in DOMAIN calls : calls[i] = [op |-> "verify", iter |-> j]

\* C13: when some or all files of an iteration's ChangeSet fail to apply,
\* the iteration is not aborted and the task does not fail on that account:
\* the verification call of that iteration is made, unless the artifact
\* store (saveDiff) or the workspace provider (commitChanges) throws first.
C13_FailedApplyStillVerified ==
    \A k \in DOMAIN applyLog :
        applyLog[k].result.failed # <<>> =>
            \/ VerifyCalled(applyLog[k].iter)
            \/ pc = "commit" /\ iteration = applyLog[k].iter
            \/ /\ pc = "done"
               /\ iteration = applyLog[k].iter
               /\ EndingError \in {"saveDiff failed", "commitChanges failed"}

\* iteration 1 applied nothing, was verified, and the task completed
C13_Witness ==
    /\ pc = "done"
    /\ task.status = "completed"
    /\ applyLog # <<>>
    /\ applyLog[1].result.applied = <<>>
    /\ applyLog[1].result.failed # <<>>
    /\ VerifyCalled(1)

\* ------------------------------------------------------------------- C14
\* the apply outcome a generator request carries, if it carries one
CarriedOutcome(req) ==
    IF "applyOutcome" \in DOMAIN req THEN req.applyOutcome ELSE Null

\* C14: when files of iteration i's ChangeSet fail to apply, the apply
\* outcome (which paths applied, which failed) is part of the input of the
\* generator request of iteration i+1.
C14_RequestCarriesApplyOutcome ==
    \A k \in DOMAIN applyLog :
        (applyLog[k].result.failed # <<>> /\ Len(requests) > applyLog[k].iter) =>
            CarriedOutcome(requests[applyLog[k].iter + 1]) = applyLog[k].result

\* ------------------------------------------------------------------- C15
\* C15: for every ChangeSet, also one that names a path in more than one
\* entry, and every pattern of per-entry failures, no path is in both the
\* applied and the failed list applyPatches returns.
C15_NoPathAppliedAndFailed ==
    ap.pc = "returned" => Range(ap.applied) \cap Range(ap.failed) = {}

\* what the loop does guarantee: entries, not paths, are filed exactly once
C15_NoEntryAppliedAndFailed ==
    ap.pc = "returned" =>
        \A k \in DOMAIN ap.patches :
            Cardinality({j \in DOMAIN ap.applied : ap.applied[j] = ap.patches[k]})
            + Cardinality({j \in DOMAIN ap.failed : ap.failed[j] = ap.patches[k]})
            = Cardinality({j \in DOMAIN ap.patches : ap.patches[j] = ap.patches[k]})

\* ------------------------------------------------------------------- C16
\* the place of the hunk header in a change text (0 if it has none)
HunkHeaderAt(d) ==
    IF \E i \in DOMAIN d : StartsWith(d[i], <<"@", "@">>)
    THEN CHOOSE i \in DOMAIN d : StartsWith(d[i], <<"@", "@">>)
    ELSE 0

\* the hunk lines of a one-hunk diff: what follows the hunk header, without
\* the empty line a final newline leaves
HunkBody(d) ==
    LET i == HunkHeaderAt(d)
        end == IF Last(d) = EmptyLine THEN Len(d) - 1 ELSE Len(d)
    IN SubSeq(d, i + 1, end)

\* a well-formed unified diff of one hunk: no file headers or the pair of
\* them, a hunk header, one or more lines that each start with '-', '+' or
\* ' ', and header counts that are the numbers of old-side and new-side lines
WellFormedDiff(d) ==
    LET i == HunkHeaderAt(d)
        hdr == ParseHunkHeader(d[i])
        body == HunkBody(d)
    IN /\ i \in {1, 3}
       /\ i = 3 => d[1] = HeaderOld /\ d[2] = HeaderNew
       /\ body # <<>>
       /\ \A k \in DOMAIN body : body[k] # <<>> /\ body[k][1] \in {"-", "+", " "}
       /\ hdr.oldLines = Len(OldSide(body))
       /\ hdr.newLines = Len(NewSide(body))

\* the line of c after which the hunk's old side starts
HunkPlace(d) ==
    LET hdr == ParseHunkHeader(d[HunkHeaderAt(d)])
    IN IF hdr.oldLines = 0 THEN hdr.oldStart ELSE hdr.oldStart - 1

\* d applies cleanly to c: the old side is in c at the stated line
AppliesCleanly(d, c) ==
    LET old == OldSide(HunkBody(d))
        at == HunkPlace(d)
    IN /\ at + Len(old) <= Len(c)
       /\ SubSeq(c, at + 1, at + Len(old)) = old

\* the result of patch(1) for a well-formed diff that applies cleanly
ReferencePatch(d, c) ==
    LET body == HunkBody(d)
        at == HunkPlace(d)
    IN SubSeq(c, 1, at) \o NewSide(body)
       \o SubSeq(c, at + Len(OldSide(body)) + 1, Len(c))

CleanDiffApplied ==
    /\ pf.pc = "returned"
    /\ WellFormedDiff(pf.diff)
    /\ AppliesCleanly(pf.diff, pf.orig)

\* C16: for every prior content c and every well-formed unified diff d that
\* applies cleanly to c, the content applyPatchToFile writes is the
\* reference patch result of d on c.
C16_CleanDiffWritesReference ==
    CleanDiffApplied => pf.content = ReferencePatch(pf.diff, pf.orig)

\* the part that holds: what the try block writes is the reference result,
\* and the diff of the example turns 'old\n' into 'new\n'
C16_TryBlockWritesReference ==
    /\ (CleanDiffApplied /\ Last(pf.writes).by = "diff") =>
          pf.content = ReferencePatch(pf.diff, pf.orig)
    /\ (/\ pf.pc = "returned"
        /\ Last(pf.writes).by = "diff"
        /\ pf.orig = <<Plain("o"), EmptyLine>>
        /\ pf.diff = <<HeaderOld, HeaderNew, HunkHeader(1, 1, 1, 1),
                       Removed("o"), Added("n"), EmptyLine>>) =>
          pf.content = <<Plain("n"), EmptyLine>>

\* ------------------------------------------------------------------- C17
\* the change text without its code-fence lines
WithoutFences(d) == JoinLines(SelectSeq(d, LAMBDA l : ~StartsWith(l, Fence)))

\* C17: for every change text without a diff marker line that is non-empty
\* once its code-fence lines are removed, the content applyPatchToFile
\* writes is that change text without the fence lines, whatever the prior
\* content was.
C17_MarkerlessTextReplacesFile ==
    (/\ pf.pc = "returned"
     /\ ~HasAnyDiffMarkers(pf.diff)
     /\ WithoutFences(pf.diff) # EmptyText) =>
        pf.content = WithoutFences(pf.diff)

\* what the code does with such a text when the write of the try block
\* returns: it writes the prior content back
C17_MarkerlessTextIsNoOp ==
    (/\ pf.pc = "returned"
     /\ ~HasAnyDiffMarkers(pf.diff)
     /\ Last(pf.writes).by = "diff") =>
        pf.content = pf.prior

\* ------------------------------------------------------------------- C18
\* an empty or unusable change text: '' or whitespace only, only code-fence
\* lines, or only file and hunk headers (each up to blank lines)
Unusable(d) ==
    \/ \A i \in DOMAIN d : IsWhitespace(d[i])
    \/ \A i \in DOMAIN d : IsWhitespace(d[i]) \/ StartsWith(d[i], Fence)
    \/ \A i \in DOMAIN d :
          \/ IsWhitespace(d[i])
          \/ IsFileHeader(d[i])
          \/ StartsWith(d[i], <<"@", "@">>)

\* C18: for every empty or unusable change text and every prior content c
\* ('' for an absent file) the content after applyPatchToFile is c, so that
\* applying the text again starts from c and ends in c.
C18_UnusableTextIsNoOp ==
    (pf.pc \in {"returned", "threw"} /\ Unusable(pf.diff)) =>
        pf.content = pf.prior

\* the part that holds: the no-op unless the fallback ran on a text with a
\* hunk header
C18_UnusableTextIsNoOpInTryBlock ==
    (/\ pf.pc \in {"returned", "threw"}
     /\ Unusable(pf.diff)
     /\ (pf.cause = "none" \/ HunkHeaderAt(pf.diff) = 0)) =>
        pf.content = pf.prior

\* ------------------------------------------------------------------- C19
\* '' and '\n'
Blank == {EmptyText, <<EmptyLine, EmptyLine>>}

\* C19: the fallback never replaces a non-empty prior content by an empty
\* or newline-only content; when it derives no content from the change
\* text the prior content stays.  Stated for the fallback that runs because
\* the diff did not apply.
C19_FallbackNeverEmptiesFile ==
    \A k \in DOMAIN pf.writes :
        (pf.writes[k].by = "fallback" /\ pf.cause = "diff" /\ pf.prior \notin Blank) =>
            pf.writes[k].text \notin Blank

\* ------------------------------------------------------------------- C20
\* C20: a change text that cannot be applied as a unified diff never makes
\* applyPatchToFile throw: the failure is absorbed by the fallback, and
\* only a throw of a file-system call can make the entry fail.
C20_OnlyIoFailsEntry ==
    /\ pf.pc = "threw" => (pf.faults # <<>> /\ Last(pf.faults) \in {"open", "write"})
    /\ (pf.pc \in {"try", "catch", "returned", "threw"} /\ pf.cause = "diff") =>
          /\ ~ApplyUnifiedDiff(pf.orig, pf.diff).ok
          /\ pf.pc = "returned" =>
                pf.writes = <<[by |-> "fallback",
                               text |-> ExtractNewContent(pf.diff, pf.orig)]>>
          /\ pf.pc = "threw" => pf.faults = <<"write">>

C20_Witness ==
    /\ pf.pc = "returned"
    /\ pf.cause = "diff"
    /\ pf.faults = <<>>
    /\ pf.writes = <<[by |-> "fallback", text |-> <<Plain("n"), EmptyLine>>]>>

\* ------------------------------------------------------------------- C21
\* C21: when the test process closes before the timeout, passed is
\* (exit code = 0) whatever the transcript and the counts parsed from it.
C21_PassedIsExitCodeZero ==
    (tr.pc # "none" /\ tr.by = "close") =>
        /\ tr.result.passed = (tr.code = 0)
        /\ tr.result.failedTests = ParseJestOutput(tr.result.output).failed

\* exit code 0 and a parsed failed count above 0: passed
C21_Witness ==
    /\ tr.pc # "none"
    /\ tr.by = "close"
    /\ tr.code = 0
    /\ tr.result.failedTests > 0
    /\ tr.result.passed

\* a non-zero exit code and no parsed failure: not passed
C21_CrashWitness ==
    /\ tr.pc # "none"
    /\ tr.by = "close"
    /\ tr.code = 1
    /\ tr.result.failedTests = 0
    /\ ~tr.result.passed

\* ------------------------------------------------------------------- C22
\* the lines of phs that are a full 'Tests: F failed, P passed, T total' line
FullLines(phs) ==
    {i \in DOMAIN phs : /\ phs[i].kind = "tests"
                        /\ phs[i].failed # <<>>
                        /\ phs[i].passed # <<>>
                        /\ phs[i].total # <<>>}

\* the lines of phs that carry the count named field
LinesWith(phs, field) == {i \in DOMAIN phs : phs[i][field] # <<>>}

\* the first line of a non-empty set of lines
FirstOf(S) == CHOOSE i \in S : \A j \in S : i <= j

\* C22: parseJestOutput returns the counts of the first full line unchanged
\* when there is one, also when P + F > T; otherwise each count that some
\* line carries is the first 'N passed', 'N failed', 'N total' of the
\* transcript, and when no line carries a count all three are zero.
C22_CountsTakenAsPrinted ==
    (fn.pc = "done" /\ fn.name = "parseJestOutput") =>
        LET phs == fn.lines
            r == fn.result
        IN IF FullLines(phs) # {}
           THEN LET ph == phs[FirstOf(FullLines(phs))]
                IN r = [failed |-> ph.failed[1], passed |-> ph.passed[1],
                        total |-> ph.total[1]]
           ELSE /\ \A field \in {"failed", "passed", "total"} :
                      LinesWith(phs, field) # {} =>
                          r[field] = phs[FirstOf(LinesWith(phs, field))][field][1]
                /\ (\A field \in {"failed", "passed", "total"} :
                        LinesWith(phs, field) = {}) =>
                      r = [failed |-> 0, passed |-> 0, total |-> 0]

\* a full line with P + F > T after a line with other counts
C22_Witness ==
    /\ fn.pc = "done"
    /\ fn.name = "parseJestOutput"
    /\ fn.lines = <<Phrase("counts", <<>>, <<4>>, <<>>),
                    Phrase("tests", <<1>>, <<2>>, <<2>>)>>
    /\ fn.result = [failed |-> 1, passed |-> 2, total |-> 2]

\* ------------------------------------------------------------------- C23
\* the failure-marker lines and the blank lines of the transcripts
MarkerLines == {l \in TranscriptLines : Includes(l, Lex.FAIL) \/ Includes(l, Lex.bullet)}

BlankLines == {l \in TranscriptLines : IsWhitespace(l)}

\* the first line after s that is in the set ends, or the end of the lines
NextOf(ls, s, ends) ==
    IF \E j \in (s + 1)..Len(ls) : ls[j] \in ends
    THEN CHOOSE j \in (s + 1)..Len(ls) :
             ls[j] \in ends /\ \A k \in (s + 1)..(j - 1) : ls[k] \notin ends
    ELSE Len(ls) + 1

\* the first n elements of a sequence
FirstN(seq, n) == SubSeq(seq, 1, IF Len(seq) < n THEN Len(seq) ELSE n)

\* the groups as stated: from a failure-marker line to the next blank line
RECURSIVE GroupsToBlank(_, _)
GroupsToBlank(ls, k) ==
    IF k <= Len(ls) + 1 /\ NextOf(ls, k - 1, MarkerLines) <= Len(ls)
    THEN LET s == NextOf(ls, k - 1, MarkerLines)
             e == NextOf(ls, s, BlankLines)
         IN <<Trim(SubSeq(ls, s, e - 1))>> \o GroupsToBlank(ls, e + 1)
    ELSE <<>>

\* C23: extractErrors returns at most 5 excerpts in transcript order, each
\* from a failure-marker line up to, not including, the next blank line:
\* the first 5 such groups.
C23_GroupsEndAtBlankLine ==
    (fn.pc = "done" /\ fn.name = "extractErrors") =>
        /\ Len(fn.result) <= 5
        /\ fn.result = FirstN(GroupsToBlank(fn.lines, 1), 5)

\* the k-th failure-marker line
MarkerAt(ls, k) ==
    CHOOSE s \in DOMAIN ls :
        /\ ls[s] \in MarkerLines
        /\ Cardinality({t \in 1..(s - 1) : ls[t] \in MarkerLines}) = k - 1

\* C23 as the code has it: every failure-marker line starts a group, and a
\* group ends before the next blank line or the next failure-marker line.
C23_GroupsEndAtBlankOrMarker ==
    (fn.pc = "done" /\ fn.name = "extractErrors") =>
        LET ls == fn.lines
            n == Cardinality({s \in DOMAIN ls : ls[s] \in MarkerLines})
        IN /\ Len(fn.result) = IF n < 5 THEN n ELSE 5
           /\ \A k \in DOMAIN fn.result :
                 LET s == MarkerAt(ls, k)
                     e == NextOf(ls, s, MarkerLines \cup BlankLines)
                 IN fn.result[k] = Trim(SubSeq(ls, s, e - 1))

\* six groups, five excerpts
C23_Witness ==
    /\ fn.pc = "done"
    /\ fn.name = "extractErrors"
    /\ \A k \in DOMAIN fn.lines : fn.lines[k] \in MarkerLines
    /\ Len(fn.lines) = 6
    /\ Len(fn.result) = 5
    /\ fn.result[5] = Trim(<<fn.lines[5]>>)

\* ------------------------------------------------------------------- C24
\* iterations whose verification timed out
TimedOutAt == {k \in DOMAIN allTestResults : allTestResults[k].output = "timed out"}

\* C24: a verification that times out is a failed verification of its
\* iteration, and when iterations remain and no capability call throws, the
\* next iteration makes its diagnose-and-fix request.
C24_TimeoutThenDiagnoseAndFix ==
    \A k \in TimedOutAt :
        /\ ~allTestResults[k].passed
        /\ (pc = "done" /\ ~CapabilityFault /\ k < task.maxIterations) =>
              \E i \in DOMAIN requests :
                  requests[i].iter = k + 1 /\ FixPath(requests[i])

\* the part that holds: when TEST_TIMEOUT expires on a running test process
\* the promise of runTests is resolved with passed = false, zero counts and
\* a transcript that ends with the timeout note
C24_TimeoutResolvesFailed ==
    (tr.pc # "none" /\ tr.by = "timeout") =>
        /\ tr.settled
        /\ ~tr.result.passed
        /\ tr.result.totalTests = 0 /\ tr.result.failedTests = 0
        /\ Last(tr.result.output) = "Test process timed out"
        /\ tr.result.errors = <<<<"Test process timed out">>>>

\* ------------------------------------------------------------------- C25
\* the position in calls of the call of op made in iteration j, 0 if none
CallAt(op, j) ==
    IF \E i \in DOMAIN calls : calls[i].op = op /\ calls[i].iter = j
    THEN CHOOSE i \in DOMAIN calls : calls[i].op = op /\ calls[i].iter = j
    ELSE 0

\* C25: every iteration that reaches verification has made exactly one
\* commit before the verification call (and after its apply call, when it
\* made one), so that the commits of a run are as many as its executed
\* iterations and HEAD~iteration is the state the run started from.
C25_OneCommitBeforeEachVerify ==
    \A j \in 1..MaxIter :
        VerifyCalled(j) =>
            /\ CallCount("commit", j) = 1
            /\ CallAt("apply", j) < CallAt("commit", j)
            /\ CallAt("commit", j) < CallAt("verify", j)

\* the part that holds: an iteration with a non-empty ChangeSet commits once
\* between its apply and its verification
C25_CommitBetweenApplyAndVerify ==
    \A j \in 1..MaxIter :
        (VerifyCalled(j) /\ CallCount("apply", j) > 0) =>
            /\ CallCount("commit", j) = 1
            /\ CallAt("apply", j) < CallAt("commit", j)
            /\ CallAt("commit", j) < CallAt("verify", j)

\* ------------------------------------------------------------------- C26
\* calls of the wrapped operation made so far
OperationCalls ==
    IF rt.pc = "operation" THEN Len(rt.errors) + 1
    ELSE IF rt.pc = "returned" THEN Len(rt.errors) + 1
    ELSE Len(rt.errors)

\* the rate-limit errors: status 429, or a message containing '429' or
\* 'quota'
RateLimitErrors ==
    {e \in GeminiErrors :
        \/ e.status = 429
        \/ e.message \in {<<"[", "4", "2", "9", "]">>, <<"q", "u", "o", "t", "a", "!">>}}

RetryBounded ==
    rt.pc # "none" =>
        /\ OperationCalls <= 5
        /\ \A k \in 1..(Len(rt.errors) - 1) : rt.errors[k] \in RateLimitErrors
        /\ (rt.errors # <<>> /\ Last(rt.errors) \notin RateLimitErrors) =>
              rt.pc = "threw" /\ rt.thrown = Last(rt.errors)
        /\ rt.pc = "threw" =>
              /\ rt.thrown = Last(rt.errors)
              /\ rt.thrown \in RateLimitErrors => Len(rt.errors) = 5

\* C26: withRetry ends, by returning or by throwing once, after at most 5
\* calls of the operation: another call is made only after a rate-limit
\* error, any other error is thrown at once, and after 5 rate-limit errors
\* the last one is thrown.
C26_RetryEndsWithinFiveCalls ==
    /\ []RetryBounded
    /\ <>(rt.pc \in {"returned", "threw"})

\* five rate-limited attempts, the last error thrown
C26_Witness ==
    /\ rt.pc = "threw"
    /\ Len(rt.errors) = 5
    /\ rt.thrown \in RateLimitErrors
    /\ rt.delays = <<2000, 4000, 8000, 16000, 32000>>

\* ------------------------------------------------------------------- C27
\* C27: once a cancellation signal has been delivered to a running task
\* between two iterations, the next iteration does not start, and the run
\* ends with status failed and a recorded cancellation reason.  Stated for
\* the runs in which no capability call throws.
C27_CancelStopsBeforeNextIteration ==
    (cancel # 0 /\ ~CapabilityFault) =>
        /\ iteration = cancel
        /\ pc = "done" =>
              /\ task.status = "failed"
              /\ \E i \in DOMAIN events :
                    events[i].type = "error" /\ events[i].msg = "Task cancelled"

\* ------------------------------------------------------------------- C28
\* the calls before call k made for the same IP address
EarlierCalls(k) == {j \in 1..(k - 1) : rl.log[j].ip = rl.log[k].ip}

\* the time of the first attempt of the window call k falls in: a window is
\* the 60 s that follow its first attempt, and the first call after a window
\* opens the next one
RECURSIVE WindowOf(_)
WindowOf(k) ==
    IF EarlierCalls(k) = {} THEN rl.log[k].at
    ELSE LET p == CHOOSE j \in EarlierCalls(k) : \A i \in EarlierCalls(k) : i <= j
             w == WindowOf(p)
         IN IF rl.log[k].at - w > 60000 THEN rl.log[k].at ELSE w

\* C28: for every IP address, of the calls of one window the first 5 return
\* true and every further one returns false; calls for another IP address
\* do not count.  Stated for the last call made: every call is the last
\* call of the state it was made in.
C28_FiveCallsPerWindow ==
    (rl.pc # "none" /\ rl.log # <<>>) =>
        LET k == Len(rl.log)
        IN rl.log[k].ok =
              (Cardinality({j \in EarlierCalls(k) : WindowOf(j) = WindowOf(k)}) < 5)

\* the sixth call of a window is refused although it comes 60 s after the
\* first
C28_Witness ==
    /\ rl.pc # "none"
    /\ Len(rl.log) = 6
    /\ \A k \in 1..5 : rl.log[k].ip = "ip1" /\ rl.log[k].ok
    /\ rl.log[1].at = 0
    /\ rl.log[6] = [ip |-> "ip1", at |-> 60000, ok |-> FALSE]

\* a call of the other address does not count, and the first call after the
\* window is served again
C28_NextWindowWitness ==
    /\ rl.pc # "none"
    /\ Len(rl.log) = 6
    /\ rl.log[1] = [ip |-> "ip2", at |-> 0, ok |-> TRUE]
    /\ rl.log[2] = [ip |-> "ip1", at |-> 0, ok |-> TRUE]
    /\ \A k \in 3..5 : rl.log[k].ip = "ip1" /\ rl.log[k].ok
    /\ rl.log[6] = [ip |-> "ip1", at |-> 60001, ok |-> TRUE]

\* ------------------------------------------------------------------- C29
\* the lines of the change text that follow its first '@@' line
AfterFirstHunkHeader(d) ==
    IF HunkHeaderAt(d) = 0 THEN <<>> ELSE SubSeq(d, HunkHeaderAt(d) + 1, Len(d))

\* the reconstruction as stated: '+' and ' ' lines without their prefix,
\* '-' lines dropped, every other line as it is
RECURSIVE Reconstruct(_)
Reconstruct(ls) ==
    IF ls = <<>> THEN <<>>
    ELSE LET line == ls[1]
         IN (IF StartsWith(line, <<"-">>) THEN <<>>
             ELSE IF StartsWith(line, <<"+">>) \/ StartsWith(line, <<" ">>)
             THEN <<Slice1(line)>>
             ELSE <<line>>)
            \o Reconstruct(Tail(ls))

\* the fallback ran because the change text, which has diff markers, did not
\* apply as a diff, and its write returned
Reconstructed ==
    /\ pf.pc = "returned"
    /\ pf.cause = "diff"
    /\ HasAnyDiffMarkers(pf.diff)
    /\ Last(pf.writes).by = "fallback"

\* C29: in the best-effort reconstruction every added line inside a hunk,
\* that is every '+'-prefixed line after the first '@@' line, is a line of
\* the output, without its prefix.
C29_AddedLinesAreKept ==
    Reconstructed =>
        \A i \in DOMAIN AfterFirstHunkHeader(pf.diff) :
            LET line == AfterFirstHunkHeader(pf.diff)[i]
            IN StartsWith(line, <<"+">>) =>
                  \E k \in DOMAIN pf.content : pf.content[k] = Slice1(line)

\* the part that holds: a text whose lines after the hunk header do not
\* start with '+++' or '---' and yield a line is reconstructed as stated,
\* with a final newline added when the prior content had one
C29_ReconstructionOfPlainHunk ==
    (/\ Reconstructed
     /\ HunkHeaderAt(pf.diff) # 0
     /\ Reconstruct(AfterFirstHunkHeader(pf.diff)) # <<>>
     /\ \A i \in DOMAIN AfterFirstHunkHeader(pf.diff) :
           LET line == AfterFirstHunkHeader(pf.diff)[i]
           IN /\ ~StartsWith(line, <<"+", "+", "+">>)
              /\ ~StartsWith(line, <<"-", "-", "-">>)) =>
        LET out == Reconstruct(AfterFirstHunkHeader(pf.diff))
        IN pf.content = IF EndsWithNewline(pf.orig) /\ ~EndsWithNewline(out)
                        THEN Append(out, EmptyLine) ELSE out

\* ------------------------------------------------------------------- C30
\* iteration 1 got an empty ChangeSet and its verification failed
EmptyFirstChangeSetFailed ==
    /\ Len(responses) >= 1
    /\ responses[1].patches = <<>>
    /\ Len(allTestResults) >= 1
    /\ ~allTestResults[1].passed

\* C30: after an empty ChangeSet and a failed verification in iteration 1,
\* with iterations remaining and no capability call throwing, iteration 2
\* makes its diagnosis request and its verification call, and the run does
\* not end in the error path.
C30_EmptyChangeSetThenDiagnose ==
    (/\ pc = "done"
     /\ EmptyFirstChangeSetFailed
     /\ task.maxIterations >= 2
     /\ ~CapabilityFault) =>
        /\ \E i \in DOMAIN requests : requests[i].iter = 2
        /\ VerifyCalled(2)
        /\ outcome = "normal"

\* ------------------------------------------------------------------- C31
\* C31: the fresh plan-and-propose path of runAgentIteration, the one whose
\* response carries a plan, is taken in iteration 1 only: the response of
\* every later iteration comes from the analyze-failure-then-generate-fix
\* path, whatever the previous transcript was.
C31_FreshPathOnlyInFirstIteration ==
    \A k \in DOMAIN responses :
        /\ responses[k].plan <=> requests[k].iter = 1
        /\ responses[k].explanation <=> requests[k].iter >= 2

\* the part that holds: a later iteration whose previous transcript is not
\* empty takes the analyze-and-fix path
C31_FixPathAfterNonEmptyTranscript ==
    \A k \in DOMAIN responses :
        (requests[k].iter >= 2 /\ requests[k].output # "") =>
            responses[k].explanation /\ ~responses[k].plan

\* ------------------------------------------------------------------- C32
\* the loop was left without a fault: generateReport has been called
LoopLeft == \E i \in DOMAIN calls : calls[i].op = "report"

\* C32: the final status of a run that left the loop without a fault is that
\* of its last verification result: completed when it passed, failed when it
\* did not, also when generating or saving the report or saving the final
\* diff fails.
C32_PostLoopFailureKeepsResult ==
    (pc = "done" /\ LoopLeft /\ lastTestResult # Null) =>
        task.status = IF lastTestResult.passed THEN "completed" ELSE "failed"

\* the part that holds: when the steps after the loop return, the final
\* status is that of the last verification result
C32_NormalEndKeepsResult ==
    (pc = "done" /\ outcome = "normal" /\ lastTestResult # Null) =>
        task.status = IF lastTestResult.passed THEN "completed" ELSE "failed"

\* ------------------------------------------------------------------- C33
\* the path p is the directory root or lies below it
Inside(p, root) == Len(p) >= Len(root) /\ SubSeq(p, 1, Len(root)) = root

\* C33: every directory created and every file written by a call of
\* applyPatchToFile lies inside the workspace root the call was given,
\* whatever the file path of the entry.
C33_ApplyStaysInsideWorkspace ==
    disk.pc # "none" =>
        \A k \in DOMAIN disk.log :
            \A p \in disk.log[k].created \cup disk.log[k].written :
                Inside(p, disk.log[k].repoPath)

\* the part that holds: an entry whose file path has no '..' segment
\* creates and writes inside the workspace root only
C33_PlainPathStaysInside ==
    disk.pc # "none" =>
        \A k \in DOMAIN disk.log :
            (\A i \in DOMAIN disk.log[k].file : disk.log[k].file[i] # "..") =>
                \A p \in disk.log[k].created \cup disk.log[k].written :
                    Inside(p, disk.log[k].repoPath)

\* ------------------------------------------------------------------- C34
\* the promise of runTests holds the result of the first of the timeout,
\* close and error handlers that ran
SettledByFirstEvent ==
    (tr.pc = "spawned" /\ tr.fired # <<>>) =>
        /\ tr.settled
        /\ tr.by = tr.fired[1][1]
        /\ tr.fired[1][1] = "timeout" =>
              /\ ~tr.result.passed
              /\ Last(tr.result.output) = "Test process timed out"
        /\ tr.fired[1][1] = "error" =>
              /\ ~tr.result.passed
              /\ tr.result.output = <<"Process error: ", "error">>
        /\ tr.fired[1][1] = "close" =>
              tr.result.passed = (tr.fired[1][2] = 0)

\* C34: in every interleaving of the close and error events of the test
\* process with the timeout, the promise of runTests is settled by the
\* handler that runs first and keeps that result: a close event with exit
\* code 0 after the timeout does not make the result passed.
C34_SettlesOnceWithFirstEvent ==
    /\ []SettledByFirstEvent
    /\ [][(tr.pc = "spawned" /\ tr.settled) =>
             /\ tr'.settled
             /\ tr'.result = tr.result
             /\ tr'.by = tr.by]_allVars

\* the timeout fired, then the process closed with exit code 0
C34_Witness ==
    /\ tr.pc = "spawned"
    /\ tr.fired = <<<<"timeout", NullCode>>, <<"close", 0>>>>
    /\ tr.by = "timeout"
    /\ ~tr.result.passed

\* the process could not be spawned, then closed
C34_ErrorThenCloseWitness ==
    /\ tr.pc = "spawned"
    /\ tr.fired = <<<<"error", NullCode>>, <<"close", 1>>>>
    /\ tr.by = "error"

\* ------------------------------------------------------------------- C35
\* the catch block of applyPatchToFile has been entered
FallbackEntered ==
    \/ pf.pc = "catch"
    \/ pf.pc \in {"returned", "threw"} /\ pf.cause # "none"

\* C35: the fallback reconstruction is entered only when the change text
\* did not parse or apply as a unified diff; the content of a diff that
\* applied cleanly is never replaced by the reconstruction, whatever the
\* file write does.
C35_FallbackOnlyForFailedDiff ==
    /\ (pf.pc # "none" /\ FallbackEntered) =>
          ~ApplyUnifiedDiff(pf.orig, pf.diff).ok
    /\ (pf.pc = "returned" /\ ApplyUnifiedDiff(pf.orig, pf.diff).ok) =>
          /\ Last(pf.writes).by = "diff"
          /\ pf.content = ApplyUnifiedDiff(pf.orig, pf.diff).text

\* the part that holds: when the write of the try block returns, the
\* fallback is not entered and the content is the result of the diff
C35_NoFallbackAfterWrite ==
    (pf.pc = "returned" /\ pf.faults = <<>> /\ ApplyUnifiedDiff(pf.orig, pf.diff).ok) =>
        /\ pf.cause = "none"
        /\ Last(pf.writes).by = "diff"
        /\ pf.content = ApplyUnifiedDiff(pf.orig, pf.diff).text

\* ------------------------------------------------------------------- C36
\* the iterations started so far
IterationsStarted == Cardinality({i \in DOMAIN events : events[i].type = "iteration"})

\* C36: the persisted currentIteration lies in 0..maxIterations, is the
\* number of iterations started, and from one write of the task row to the
\* next it stays or grows by 1: it never decreases and each start of an
\* iteration raises it by exactly 1.
C36_CurrentIterationCountsStarts ==
    /\ 0 <= task.currentIteration
    /\ task.currentIteration <= task.maxIterations
    /\ task.currentIteration = IterationsStarted
    /\ \A i \in 1..(Len(statusLog) - 1) :
          statusLog[i + 1][2] - statusLog[i][2] \in {0, 1}

\* a run that used its whole budget and ended in the catch block
C36_Witness ==
    /\ pc = "done"
    /\ outcome = "error"
    /\ task.maxIterations = 3
    /\ task.currentIteration = 3

\* ------------------------------------------------------------------- C37
\* C37: the k-th backoff of a call of withRetry (k = 0, 1, 2, ...) is
\* 2000 * 2^k ms, and the fifth rate-limited attempt is followed by the
\* throw without another backoff: at most four sleeps, of 2, 4, 8 and 16 s.
C37_DoublingBackoffNoSleepBeforeThrow ==
    rt.pc # "none" =>
        /\ \A k \in DOMAIN rt.delays : rt.delays[k] = 2000 * 2 ^ (k - 1)
        /\ Len(rt.delays) <= 4
        /\ Len(rt.errors) = 5 => rt.pc = "threw"

\* the part that holds: every rate-limited attempt is followed by a sleep,
\* the sleep after the k-th one lasts 2000 * 2^k ms
C37_DoublingBackoff ==
    rt.pc # "none" =>
        /\ \A k \in DOMAIN rt.delays : rt.delays[k] = 2000 * 2 ^ (k - 1)
        /\ Len(rt.delays) <= 5
        /\ \A k \in DOMAIN rt.delays : rt.errors[k] \in RateLimitErrors

\* ------------------------------------------------------------------- C38
\* the calls made so far for an IP address
CallsOf(ip) == {j \in DOMAIN rl.log : rl.log[j].ip = ip}

\* what a call of checkRateLimit, the last of the log after the step, does
\* to rateLimitStore
FixedWindowStep ==
    LET c == rl'.log[Len(rl'.log)]
        previous == CHOOSE j \in CallsOf(c.ip) : \A i \in CallsOf(c.ip) : i <= j
    IN /\ ~c.ok => rl'.entries = rl.entries
       /\ (CallsOf(c.ip) # {} /\ c.at - WindowOf(previous) > 60000) =>
             /\ c.ok
             /\ rl'.entries[c.ip] = [count |-> 1, firstAttempt |-> c.at]
       /\ \A ip \in IpAddresses \ {c.ip} : rl'.entries[ip] = rl.entries[ip]

\* C38: a call of checkRateLimit that returns false leaves the entry of its
\* IP address, and the whole store, unchanged; the first call made more than
\* 60 s after the first attempt of the window returns true and stores count
\* 1 with its own time as first attempt, whatever was rejected in between.
C38_RejectedCallsLeaveWindow ==
    [][rl.pc = "loaded" => FixedWindowStep]_allVars

\* five calls admitted, one call rejected 30 s later, and the call made
\* 60001 ms after the first one opens a new window
C38_Witness ==
    /\ rl.pc = "loaded"
    /\ Len(rl.log) = 7
    /\ \A k \in 1..7 : rl.log[k].ip = "ip1"
    /\ rl.log[1].at = 0
    /\ rl.log[5].ok
    /\ rl.log[6] = [ip |-> "ip1", at |-> 30000, ok |-> FALSE]
    /\ rl.log[7] = [ip |-> "ip1", at |-> 60001, ok |-> TRUE]
    /\ rl.entries["ip1"] = [count |-> 1, firstAttempt |-> 60001]

\* ------------------------------------------------------------------- C39
\* a client is in the set of the task its most recent subscribe message
\* named while it is not closed, and in no other set
SubscriptionsFollowLastSubscribe ==
    wss.pc # "none" =>
        \A c \in Clients, t \in SubscriptionKeys :
            c \in wss.taskClients[t] <=>
                (wss.readyState[c] \in {"open", "closing"} /\ wss.named[c] = t)

\* C39: a task event of task T is sent to exactly the clients that are open
\* and whose most recent subscribe message named T; a client is in the
\* subscriber set of at most one task, and a closed client is in none.  A
\* subscribe message is a message of type subscribe that carries a task id.
C39_EventsReachLastSubscribers ==
    /\ []SubscriptionsFollowLastSubscribe
    /\ [][(wss.pc = "listening" /\ wss'.log # wss.log) =>
             LET e == wss'.log[Len(wss'.log)]
             IN e.to = {c \in Clients : /\ wss.readyState[c] = "open"
                                        /\ wss.named[c] = e.taskId}]_allVars

\* c1 subscribed to t1 and then to t2, c2 subscribed to t1 and closed: an
\* event of t1 reaches nobody, an event of t2 reaches c1
C39_Witness ==
    /\ wss.pc = "listening"
    /\ wss.named = [c \in Clients |-> IF c = "c1" THEN "t2" ELSE "t1"]
    /\ wss.readyState = [c \in Clients |-> IF c = "c1" THEN "open" ELSE "closed"]
    /\ wss.log = <<[taskId |-> "t1", to |-> {}], [taskId |-> "t2", to |-> {"c1"}]>>

\* ------------------------------------------------------------------- C40
\* the stored user u has the email e, letter case aside
HasEmail(u, e) == u # Null /\ ToLowerCase(u.email) = ToLowerCase(e)

\* C40: every entry of emailIndex has a lower-cased key and the id of a
\* stored user whose email is that key, letter case aside; so
\* findUserByEmail(e) returns no user with another email, and emailExists(e)
\* holds only when a stored user has the email e.
C40_EmailIndexMatchesUsers ==
    users.pc # "none" =>
        /\ \A key \in DOMAIN users.emailIndex :
              users.emailIndex[key] # "undefined" =>
                  /\ key = ToLowerCase(key)
                  /\ HasEmail(users.users[users.emailIndex[key]], key)
        /\ \A e \in DOMAIN users.emailIndex :
              /\ FindUserByEmail(users, e) # Null =>
                    HasEmail(FindUserByEmail(users, e), e)
              /\ EmailExists(users, e) =>
                    \E i \in DOMAIN users.users : HasEmail(users.users[i], e)

\* the part that holds: the key of an entry is lower-cased and its id is
\* the id of a stored user
C40_EmailIndexPointsToStoredUser ==
    users.pc # "none" =>
        \A key \in DOMAIN users.emailIndex :
            users.emailIndex[key] # "undefined" =>
                /\ key = ToLowerCase(key)
                /\ users.users[users.emailIndex[key]] # Null
                /\ users.users[users.emailIndex[key]].id = users.emailIndex[key]

====

